---- MODULE Spec2Model ----
(***************************************************************************)
(* Sproutcast: state-machine model of the ChangeDetector                   *)
(* (cpp/src/change_detector.cpp) and of the minimal MQTT 3.1.1 transport   *)
(* (cpp/src/mqtt_client.cpp).                                              *)
(*                                                                         *)
(* Numbers of type double are modelled as exact rationals [n, d] in lowest *)
(* terms (d > 0).  Strings are sequences of bytes 0..255.                  *)
(***************************************************************************)
EXTENDS Integers, Sequences, FiniteSets, TLC

VARIABLES
    \* ---- ChangeDetector ----
    baseline_,    \* ChangeDetector::baseline_
    signalFile,   \* content of the change-signal file ("none" before a write)
    cdOp,         \* last ChangeDetector call
    cdArg,        \* instance list of the last analyzeFrame / updateBaseline
    cdRet,        \* what the last call returned: ChangeDetectionMetrics
                  \* (analyzeFrame), a boolean (writeChangeSignal), "void"
    cdWasValid,   \* hasBaseline() when the last call was entered
    cdRepeat,     \* last call = analyzeFrame(L) right after the bootstrap
                  \* analyzeFrame(L) with the same L
    cdTouched     \* analyzeFrame or updateBaseline was called since
                  \* construction / the last reset

cdVars == <<baseline_, signalFile, cdOp, cdArg, cdRet, cdWasValid,
            cdRepeat, cdTouched>>

VARIABLES
    \* ---- MqttClient ----
    sock_,        \* MqttClient::sock_ (-1: no socket)
    openFds,      \* descriptors of the process that are open sockets
    ioLog,        \* system calls made by the last MqttClient call, in order
    mqOp,         \* last MqttClient call
    mqArgs,       \* arguments of the last publish
    mqRet,        \* return value of the last connect / publish
    mqSockBefore, \* sock_ when the last call was entered
    mqSession     \* "never": no connect call has returned true; "closed":
                  \* disconnect was the last call other than publish;
                  \* "connected" / "failed": result of the last connect

mqVars == <<sock_, openFds, ioLog, mqOp, mqArgs, mqRet, mqSockBefore,
            mqSession>>

VARIABLES
    \* ---- encode_varint applied to one value ----
    varintIn,     \* the uint32_t argument
    varintOut,    \* the returned string
    varintDone    \* encode_varint has returned

viVars == <<varintIn, varintOut, varintDone>>

VARIABLES
    \* ---- plant analysis (leaf_area.cpp): free functions, no state ----
    lfOp,         \* last call: "classifyPlantType", "processSprout",
                  \* "processPlant", "analyzePlants",
                  \* "watershedInstances" or "skeletonize"
    lfArgs,       \* its arguments
    lfDone,       \* whether the call has ended
    lfRet         \* what it returned, or that it raised cv::Exception

lfVars == <<lfOp, lfArgs, lfDone, lfRet>>

VARIABLES
    \* ---- VisionProcessor ----
    previous_frame_,        \* VisionProcessor::previous_frame_
    baseline_frame_,        \* VisionProcessor::baseline_frame_
    baseline_metrics_,      \* VisionProcessor::baseline_metrics_
    baseline_established_,  \* VisionProcessor::baseline_established_
    frame_counter_,         \* VisionProcessor::frame_counter_
    vpArg,        \* frame of the last processBasicMetrics call
    vpRet,        \* BasicMetrics it returned
    vpPath,       \* the steps the last call took, in the order of the
                  \* code: calls, "catch" for an exception caught at the
                  \* end of the body, the member names for the writes of
                  \* previous_frame_ and baseline_metrics_, "return"
    vpBefore,     \* the members when the last call was entered
    vpLastCompleted  \* frame of the most recent call that reached the end
                     \* of the try block before the last call was entered
                     \* ("empty": no such call)

vpVars == <<previous_frame_, baseline_frame_, baseline_metrics_,
            baseline_established_, frame_counter_, vpArg, vpRet, vpPath,
            vpBefore, vpLastCompleted>>

VARIABLES
    \* ---- VisionProcessor: the AI hand-off files ----
    aiRequests,   \* ai_requests_dir_: request id -> text of the request file
    aiSignals,    \* data_dir_: request id -> text of the signal file
    aiResults,    \* ai_results_dir_: request id -> text of the result file
    aiOp,         \* last call: "saveAIRequestData", "loadAIResults", or
                  \* "write result" for a write of the AI module
    aiArg,        \* its request id
    aiRet,        \* what the last loadAIResults returned
    aiBefore,     \* the files when the last call was entered
    aiReads       \* per request id: the loadAIResults calls that have read
                  \* the result file since the AI module last wrote it

aiVars == <<aiRequests, aiSignals, aiResults, aiOp, aiArg, aiRet, aiBefore,
            aiReads>>

VARIABLES
    \* ---- the orchestrator loop of runLegacyMode ----
    mnTopic,      \* the parameter topic
    mnPc,         \* position in the loop: "capture", "instances" (the loop
                  \* over the instances), "sleep", or "terminated" once an
                  \* exception has left runLegacyMode
    mnResult,     \* how analyzePlants ended in this tick
    mnI,          \* the index i of the loop over the instances
    mnInstanceId, \* instanceId of the last pass of that loop
    mnCalls,      \* the stages of this tick in the order they were
                  \* called: "analyzePlants", "client.publish (instance)"
                  \* at the first per-instance publish, "client.publish"
    mnPublished,  \* per-instance publish calls of this tick
    mnLastTopic,  \* topic of the last publish call of this tick
    mnError       \* the exception that left runLegacyMode, or "none"

mnVars == <<mnTopic, mnPc, mnResult, mnI, mnInstanceId, mnCalls,
            mnPublished, mnLastTopic, mnError>>

\* ------------------------------------------------------------------------
\* Bounds of the model
\* ------------------------------------------------------------------------
\* longest instance list handed to the ChangeDetector
MaxInstances == 2
\* most addresses getaddrinfo returns
MaxAddrs == 2
\* descriptors available to the process for sockets: 3 .. 2 + MaxSockets
MaxSockets == 2
\* length of the long topic and of the long payload handed to publish
LongTopicLen == 258
LongPayloadLen == 130
\* encode_varint is applied to every value 0 .. MaxSmallVarint and to the
\* values around the powers of 128
MaxSmallVarint == 300

\* ------------------------------------------------------------------------
\* double arithmetic, as exact rationals
\* ------------------------------------------------------------------------
Abs(x) == IF x < 0 THEN -x ELSE x

RECURSIVE GCD(_, _)
GCD(a, b) == IF b = 0 THEN a ELSE GCD(b, a % b)

Rat(n, d) ==
    LET g == GCD(Abs(n), d)
    IN  [n |-> n \div g, d |-> d \div g]

RZero == [n |-> 0, d |-> 1]
ROne == [n |-> 1, d |-> 1]
RInt(i) == [n |-> i, d |-> 1]
RAdd(a, b) == Rat(a.n * b.d + b.n * a.d, a.d * b.d)
RSub(a, b) == Rat(a.n * b.d - b.n * a.d, a.d * b.d)
RMul(a, b) == Rat(a.n * b.n, a.d * b.d)
\* a / k for an integer k > 0
RDivInt(a, k) == Rat(a.n, a.d * k)
\* a / b for a rational b > 0
RDiv(a, b) == Rat(a.n * b.d, a.d * b.n)
RAbs(a) == [n |-> Abs(a.n), d |-> a.d]
RGt(a, b) == a.n * b.d > b.n * a.d
RGe(a, b) == a.n * b.d >= b.n * a.d

\* ------------------------------------------------------------------------
\* ChangeDetector: thresholds (change_detector.hpp)
\* ------------------------------------------------------------------------
AREA_CHANGE_THRESHOLD == Rat(10, 100)
COUNT_CHANGE_THRESHOLD == 1
COLOR_CHANGE_THRESHOLD_H == RInt(8)
COLOR_CHANGE_THRESHOLD_S == RInt(12)
COLOR_CHANGE_THRESHOLD_V == RInt(15)
MORPHOLOGY_CHANGE_THRESHOLD == Rat(8, 100)

\* ------------------------------------------------------------------------
\* PlantInstance values handed to the detector.  Only the fields that
\* computeBaseline and calculateMorphologyScore read are kept.
\* meanColor is <<B, G, R>>.
\* ------------------------------------------------------------------------
MkInstance(area, bgr, sol, circ, ecc, comp) ==
    [areaPixels |-> area, meanColor |-> bgr,
     solidity |-> Rat(sol, 100), circularity |-> Rat(circ, 100),
     eccentricity |-> Rat(ecc, 100), compactness |-> Rat(comp, 100)]

InstanceUniverse ==
    { MkInstance(1000, <<40, 200, 60>>, 0, 0, 100, 0),
      MkInstance(1100, <<44, 204, 70>>, 10, 0, 100, 10),
      MkInstance(1000, <<40, 200, 120>>, 0, 0, 100, 0),
      MkInstance(1500, <<30, 150, 45>>, 90, 80, 50, 90) }

RECURSIVE SeqsUpTo(_, _)
SeqsUpTo(S, k) ==
    IF k = 0 THEN { <<>> }
    ELSE LET shorter == SeqsUpTo(S, k - 1)
         IN  shorter \cup { Append(s, x) : s \in shorter, x \in S }

InstanceLists == SeqsUpTo(InstanceUniverse, MaxInstances)

\* ------------------------------------------------------------------------
\* cv::Mat(1, 1, CV_8UC3, Scalar(b, g, r)) followed by
\* cv::cvtColor(..., COLOR_BGR2HSV) and cv::mean: the 8-bit conversion,
\* H in 0..179, S and V in 0..255, in 12-bit fixed point.
\* ------------------------------------------------------------------------
Max2(a, b) == IF a > b THEN a ELSE b
Min2(a, b) == IF a < b THEN a ELSE b
Sat8(x) == Max2(0, Min2(255, x))
RoundDiv(num, den) == (2 * num + den) \div (2 * den)
sdiv_table(i) == IF i = 0 THEN 0 ELSE RoundDiv(255 * 4096, i)
hdiv_table180(i) == IF i = 0 THEN 0 ELSE RoundDiv(180 * 4096, 6 * i)

BGR2HSV(bgr) ==
    LET b == Sat8(bgr[1])
        g == Sat8(bgr[2])
        r == Sat8(bgr[3])
        v == Max2(b, Max2(g, r))
        vmin == Min2(b, Min2(g, r))
        diff == v - vmin
        s == (diff * sdiv_table(v) + 2048) \div 4096
        h0 == IF v = r THEN g - b
              ELSE IF v = g THEN b - r + 2 * diff
              ELSE r - g + 4 * diff
        h1 == (h0 * hdiv_table180(diff) + 2048) \div 4096
        h == IF h1 < 0 THEN h1 + 180 ELSE h1
    IN  <<h, s, v>>

\* ------------------------------------------------------------------------
\* ChangeDetector::BaselineData and ChangeDetectionMetrics
\* ------------------------------------------------------------------------
BaselineData ==
    [plantCount |-> 0, totalArea |-> RZero,
     avgColor |-> <<RZero, RZero, RZero>>,
     avgSolidity |-> RZero, avgCircularity |-> RZero,
     avgEccentricity |-> RZero, isValid |-> FALSE]

ChangeDetectionMetrics ==
    [totalAreaChange |-> RZero, plantCountChange |-> 0,
     avgColorChangeH |-> RZero, avgColorChangeS |-> RZero,
     avgColorChangeV |-> RZero, morphologyChange |-> RZero,
     significantChange |-> FALSE]

RECURSIVE SumOver(_, _, _)
\* sum of f[instances[i]] for i in 1..k (the accumulation loops)
SumOver(instances, f, k) ==
    IF k = 0 THEN RZero
    ELSE RAdd(SumOver(instances, f, k - 1), f[instances[k]])

computeBaselineOf(instances) ==
    IF instances = <<>> THEN BaselineData
    ELSE
      LET validInstances == Len(instances)
          dom == { instances[i] : i \in 1..Len(instances) }
          area == [x \in dom |-> RInt(x.areaPixels)]
          hsv(c) == [x \in dom |-> RInt(BGR2HSV(x.meanColor)[c])]
          sol == [x \in dom |-> x.solidity]
          circ == [x \in dom |-> x.circularity]
          ecc == [x \in dom |-> x.eccentricity]
          total(f) == SumOver(instances, f, Len(instances))
      IN  [plantCount |-> Len(instances),
           totalArea |-> total(area),
           avgColor |-> << RDivInt(total(hsv(1)), validInstances),
                           RDivInt(total(hsv(2)), validInstances),
                           RDivInt(total(hsv(3)), validInstances) >>,
           avgSolidity |-> RDivInt(total(sol), validInstances),
           avgCircularity |-> RDivInt(total(circ), validInstances),
           avgEccentricity |-> RDivInt(total(ecc), validInstances),
           isValid |-> TRUE]

\* computeBaseline, tabulated once over the instance lists of the model
computeBaselineTable == [l \in InstanceLists |-> computeBaselineOf(l)]
computeBaseline(instances) == computeBaselineTable[instances]

instanceScore(x) ==
    RAdd(RAdd(RMul(x.solidity, Rat(3, 10)), RMul(x.circularity, Rat(3, 10))),
         RAdd(RMul(RSub(ROne, x.eccentricity), Rat(2, 10)),
              RMul(x.compactness, Rat(2, 10))))

calculateMorphologyScoreOf(instances) ==
    IF instances = <<>> THEN RZero
    ELSE
      LET dom == { instances[i] : i \in 1..Len(instances) }
          sc == [x \in dom |-> instanceScore(x)]
      IN  RDivInt(SumOver(instances, sc, Len(instances)), Len(instances))

\* calculateMorphologyScore, tabulated once over the instance lists
calculateMorphologyScoreTable ==
    [l \in InstanceLists |-> calculateMorphologyScoreOf(l)]
calculateMorphologyScore(instances) == calculateMorphologyScoreTable[instances]

\* variant of isSignificant that leaves out the hue test
isSignificantNoHue(m) ==
    \/ RGt(m.totalAreaChange, AREA_CHANGE_THRESHOLD)
    \/ m.plantCountChange >= COUNT_CHANGE_THRESHOLD
    \/ RGt(m.avgColorChangeS, COLOR_CHANGE_THRESHOLD_S)
    \/ RGt(m.avgColorChangeV, COLOR_CHANGE_THRESHOLD_V)
    \/ RGt(m.morphologyChange, MORPHOLOGY_CHANGE_THRESHOLD)

\* the significance test of analyzeFrame, on the deltas just computed
isSignificant(m) ==
    \/ RGt(m.totalAreaChange, AREA_CHANGE_THRESHOLD)
    \/ m.plantCountChange >= COUNT_CHANGE_THRESHOLD
    \/ RGt(m.avgColorChangeH, COLOR_CHANGE_THRESHOLD_H)
    \/ RGt(m.avgColorChangeS, COLOR_CHANGE_THRESHOLD_S)
    \/ RGt(m.avgColorChangeV, COLOR_CHANGE_THRESHOLD_V)
    \/ RGt(m.morphologyChange, MORPHOLOGY_CHANGE_THRESHOLD)

\* variant of compareToBaseline whose morphology change is measured
\* against the shape averages of the stored baseline
compareToBaselineStoredShape(base, instances) ==
    LET current == computeBaseline(instances)
        deltas ==
          [totalAreaChange |->
              IF RGt(base.totalArea, RZero)
              THEN RDiv(RAbs(RSub(current.totalArea, base.totalArea)),
                        base.totalArea)
              ELSE RZero,
           plantCountChange |-> Abs(current.plantCount - base.plantCount),
           avgColorChangeH |->
              RAbs(RSub(current.avgColor[1], base.avgColor[1])),
           avgColorChangeS |->
              RAbs(RSub(current.avgColor[2], base.avgColor[2])),
           avgColorChangeV |->
              RAbs(RSub(current.avgColor[3], base.avgColor[3])),
           morphologyChange |->
              RAbs(RSub(calculateMorphologyScore(instances),
                        RAdd(RAdd(RMul(base.avgSolidity, Rat(3, 10)),
                                  RMul(base.avgCircularity, Rat(3, 10))),
                             RMul(RSub(ROne, base.avgEccentricity),
                                  Rat(2, 10))))),
           significantChange |-> FALSE]
    IN  [deltas EXCEPT !.significantChange = isSignificant(deltas)]

\* the metrics analyzeFrame returns when a baseline exists
compareToBaseline(base, instances) ==
    LET current == computeBaseline(instances)
        deltas ==
          [totalAreaChange |->
              IF RGt(base.totalArea, RZero)
              THEN RDiv(RAbs(RSub(current.totalArea, base.totalArea)),
                        base.totalArea)
              ELSE RZero,
           plantCountChange |-> Abs(current.plantCount - base.plantCount),
           avgColorChangeH |->
              RAbs(RSub(current.avgColor[1], base.avgColor[1])),
           avgColorChangeS |->
              RAbs(RSub(current.avgColor[2], base.avgColor[2])),
           avgColorChangeV |->
              RAbs(RSub(current.avgColor[3], base.avgColor[3])),
           morphologyChange |->
              RAbs(RSub(calculateMorphologyScore(instances),
                        calculateMorphologyScore(<<>>))),
           significantChange |-> FALSE]
    IN  [deltas EXCEPT !.significantChange = isSignificant(deltas)]

\* variant of analyzeFrame whose bootstrap keeps computeBaseline's validity
analyzeFrameKeepValidity(base, instances) ==
    IF ~base.isValid
    THEN [ret |-> ChangeDetectionMetrics,
          baseline |-> computeBaseline(instances)]
    ELSE [ret |-> compareToBaseline(base, instances), baseline |-> base]

\* variant of analyzeFrame that rolls the baseline forward on every call
analyzeFrameRolling(base, instances) ==
    IF ~base.isValid
    THEN [ret |-> ChangeDetectionMetrics,
          baseline |-> [computeBaseline(instances) EXCEPT !.isValid = TRUE]]
    ELSE [ret |-> compareToBaseline(base, instances),
          baseline |-> [computeBaseline(instances) EXCEPT !.isValid = TRUE]]

\* analyzeFrame as a function: [returned metrics, new baseline_]
analyzeFrame(base, instances) ==
    IF ~base.isValid
    THEN [ret |-> ChangeDetectionMetrics,
          baseline |-> [computeBaseline(instances) EXCEPT !.isValid = TRUE]]
    ELSE [ret |-> compareToBaseline(base, instances), baseline |-> base]

\* variant of updateBaseline that keeps computeBaseline's validity
updateBaselineKeepValidity(instances) == computeBaseline(instances)

updateBaseline(instances) ==
    [computeBaseline(instances) EXCEPT !.isValid = TRUE]

reset == BaselineData

hasBaseline(base) == base.isValid

\* what writeChangeSignal serializes: the metrics and the thresholds
changeData(m) ==
    [significant_change |-> m.significantChange,
     changes |-> [total_area_change |-> m.totalAreaChange,
                  plant_count_change |-> m.plantCountChange,
                  avg_color_change_h |-> m.avgColorChangeH,
                  avg_color_change_s |-> m.avgColorChangeS,
                  avg_color_change_v |-> m.avgColorChangeV,
                  morphology_change |-> m.morphologyChange],
     thresholds |-> [area_threshold |-> AREA_CHANGE_THRESHOLD,
                     count_threshold |-> COUNT_CHANGE_THRESHOLD,
                     color_h_threshold |-> COLOR_CHANGE_THRESHOLD_H,
                     color_s_threshold |-> COLOR_CHANGE_THRESHOLD_S,
                     color_v_threshold |-> COLOR_CHANGE_THRESHOLD_V,
                     morphology_threshold |-> MORPHOLOGY_CHANGE_THRESHOLD]]

\* writeChangeSignal as a function of the file and of whether it opens:
\* <<return value, new file content>>
writeChangeSignal(m, file, opens) ==
    IF ~opens THEN [ret |-> FALSE, file |-> file]
    ELSE [ret |-> TRUE, file |-> changeData(m)]

\* ------------------------------------------------------------------------
\* ChangeDetector: initial state and actions
\* ------------------------------------------------------------------------
InitCD ==
    /\ baseline_ = BaselineData
    /\ signalFile = "none"
    /\ cdOp = "none"
    /\ cdArg = <<>>
    /\ cdRet = "void"
    /\ cdWasValid = FALSE
    /\ cdRepeat = FALSE
    /\ cdTouched = FALSE

AnalyzeFrame ==
    \E instances \in InstanceLists :
        \E r \in {analyzeFrame(baseline_, instances)} :
            /\ baseline_' = r.baseline
            /\ cdRet' = r.ret
            /\ cdOp' = "analyzeFrame"
            /\ cdArg' = instances
            /\ cdWasValid' = hasBaseline(baseline_)
            /\ cdRepeat' = (/\ cdOp = "analyzeFrame"
                            /\ ~cdWasValid
                            /\ cdArg = instances)
            /\ cdTouched' = TRUE
            /\ UNCHANGED <<signalFile, mqVars, viVars, lfVars, vpVars,
                           aiVars, mnVars>>

UpdateBaseline ==
    \E instances \in InstanceLists :
        /\ baseline_' = updateBaseline(instances)
        /\ cdRet' = "void"
        /\ cdOp' = "updateBaseline"
        /\ cdArg' = instances
        /\ cdWasValid' = hasBaseline(baseline_)
        /\ cdRepeat' = FALSE
        /\ cdTouched' = TRUE
        /\ UNCHANGED <<signalFile, mqVars, viVars, lfVars, vpVars,
                       aiVars, mnVars>>

Reset ==
    /\ baseline_' = reset
    /\ cdRet' = "void"
    /\ cdOp' = "reset"
    /\ cdArg' = <<>>
    /\ cdWasValid' = hasBaseline(baseline_)
    /\ cdRepeat' = FALSE
    /\ cdTouched' = FALSE
    /\ UNCHANGED <<signalFile, mqVars, viVars, lfVars, vpVars, aiVars, mnVars>>

\* metrics handed to writeChangeSignal: the default-constructed value and
\* a value reporting a change of the instance count
SignalInputs ==
    { ChangeDetectionMetrics,
      [ChangeDetectionMetrics EXCEPT !.plantCountChange = 1,
                                     !.significantChange = TRUE] }

WriteChangeSignal ==
    \E m \in SignalInputs, opens \in BOOLEAN :
        \E r \in {writeChangeSignal(m, signalFile, opens)} :
            /\ signalFile' = r.file
            /\ cdRet' = r.ret
            /\ cdOp' = "writeChangeSignal"
            /\ cdArg' = <<>>
            /\ cdWasValid' = hasBaseline(baseline_)
            /\ cdRepeat' = FALSE
            /\ UNCHANGED <<baseline_, cdTouched, mqVars, viVars, lfVars, vpVars,
                           aiVars, mnVars>>



\* ------------------------------------------------------------------------
\* MqttClient (mqtt_client.cpp).  The environment's answers to the system
\* calls of one MqttClient call are the parameters named env / plan.
\* ------------------------------------------------------------------------
Fds == 3..(2 + MaxSockets)

\* what send() returns on the successive calls of one write_all; once the
\* plan is used up send() accepts everything that is left
SendPlans == { <<>>, <<0>>, <<7>>, <<7, -1>> }

\* write_all: the loop over send(); returns whether all was written and the
\* send() calls made, each with the bytes offered and the result
RECURSIVE write_loop(_, _, _, _, _)
write_loop(fd, data, total, plan, log) ==
    IF total >= Len(data) THEN [ok |-> TRUE, log |-> log]
    ELSE
      LET left == Len(data) - total
          n == IF fd = -1 THEN -1
               ELSE IF plan = <<>> THEN left
               ELSE Min2(Head(plan), left)
          ev == [op |-> "send", fd |-> fd,
                 buf |-> SubSeq(data, total + 1, Len(data)), n |-> n]
      IN  IF n <= 0 THEN [ok |-> FALSE, log |-> Append(log, ev)]
          ELSE write_loop(fd, data, total + n,
                          IF plan = <<>> THEN plan ELSE Tail(plan),
                          Append(log, ev))

write_all(fd, data, plan) == write_loop(fd, data, 0, plan, <<>>)

\* variant of encode_varint whose continuation test is off by one
RECURSIVE encode_varintOffByOne(_)
encode_varintOffByOne(value) ==
    LET encoded_byte == value % 128
        rest == value \div 128
    IN  IF rest > 1 THEN <<encoded_byte + 128>> \o encode_varintOffByOne(rest)
        ELSE <<encoded_byte>>

RECURSIVE encode_varint(_)
encode_varint(value) ==
    LET encoded_byte == value % 128
        rest == value \div 128
    IN  IF rest > 0 THEN <<encoded_byte + 128>> \o encode_varint(rest)
        ELSE <<encoded_byte>>

\* static_cast<uint16_t> of a size.  (static_cast<uint32_t> of a size is
\* the size itself for every size below 2^32; the sizes and the varint
\* arguments of this model stay below 2^31.)
U16(x) == x % 65536

\* htons: the two bytes of a 16-bit value, most significant first
htons(x) == << x \div 256, x % 256 >>

append_utf8_string(buf, str) == buf \o htons(U16(Len(str))) \o str

\* "MQTT" and "plantvision-client"
ProtocolName == <<77, 81, 84, 84>>
ClientId == <<112, 108, 97, 110, 116, 118, 105, 115, 105, 111, 110, 45,
              99, 108, 105, 101, 110, 116>>

connectPacket ==
    LET payload == append_utf8_string(
                       append_utf8_string(<<>>, ProtocolName)
                           \o <<4>> \o <<2>> \o htons(60),
                       ClientId)
    IN  <<16>> \o encode_varint(Len(payload)) \o payload

\* variant of disconnect that closes the socket only after a successful
\* write of the DISCONNECT packet
disconnectCloseOnSuccess(sock, fds, plan) ==
    IF sock # -1
    THEN IF write_all(sock, <<224, 0>>, plan).ok
         THEN [sock |-> -1, fds |-> fds \ {sock},
               log |-> write_all(sock, <<224, 0>>, plan).log
                         \o << [op |-> "close", fd |-> sock] >>]
         ELSE [sock |-> sock, fds |-> fds,
               log |-> write_all(sock, <<224, 0>>, plan).log]
    ELSE [sock |-> sock, fds |-> fds, log |-> <<>>]

\* disconnect: [sock_, openFds, system calls]
disconnect(sock, fds, plan) ==
    IF sock # -1
    THEN [sock |-> -1, fds |-> fds \ {sock},
          log |-> write_all(sock, <<224, 0>>, plan).log
                    \o << [op |-> "close", fd |-> sock] >>]
    ELSE [sock |-> sock, fds |-> fds, log |-> <<>>]

\* socket() returns the lowest free descriptor, -1 when there is none
lowestFree(fds) ==
    IF Fds \ fds = {} THEN -1
    ELSE CHOOSE f \in Fds \ fds : \A g \in Fds \ fds : f <= g

\* the loop over the addresses: per address socket() fails ("nosock"),
\* connect() fails ("refused") or connect() succeeds ("ok")
RECURSIVE open_loop(_, _, _)
open_loop(addrs, fds, log) ==
    IF addrs = <<>> THEN [fd |-> -1, fds |-> fds, log |-> log]
    ELSE
      LET fd == IF Head(addrs) = "nosock" THEN -1 ELSE lowestFree(fds)
          sockEv == [op |-> "socket", fd |-> fd]
      IN  IF fd = -1
          THEN open_loop(Tail(addrs), fds, Append(log, sockEv))
          ELSE IF Head(addrs) = "ok"
          THEN [fd |-> fd, fds |-> fds \cup {fd},
                log |-> log \o << sockEv,
                                  [op |-> "connect", fd |-> fd, ok |-> TRUE] >>]
          ELSE open_loop(Tail(addrs), fds,
                         log \o << sockEv,
                                   [op |-> "connect", fd |-> fd, ok |-> FALSE],
                                   [op |-> "close", fd |-> fd] >>)

\* variant of connackOk that ignores the return code
connackOkAnyReturnCode(n, header) ==
    ~(n < 4 \/ header[1] # 32 \/ header[2] < 2)

\* the test on the CONNACK bytes; header[i] is the C++ header[i - 1]
connackOk(n, header) ==
    ~(n < 4 \/ header[1] # 32 \/ header[2] < 2 \/ header[4] # 0)

\* connect: [return value, sock_, openFds, system calls]
connect(sock, fds, env) ==
    IF ~env.resolve
    THEN [ret |-> FALSE, sock |-> sock, fds |-> fds,
          log |-> << [op |-> "getaddrinfo", ok |-> FALSE] >>]
    ELSE
      LET opened == open_loop(env.addrs, fds,
                              << [op |-> "getaddrinfo", ok |-> TRUE] >>)
          w == write_all(opened.fd, connectPacket, env.plan)
          rcvEv == [op |-> "recv", fd |-> opened.fd, n |-> env.recv.n,
                    data |-> SubSeq(env.recv.header, 1,
                                    Max2(0, env.recv.n))]
          bye == disconnect(opened.fd, opened.fds, env.plan2)
      IN  IF opened.fd = -1
          THEN [ret |-> FALSE, sock |-> sock, fds |-> opened.fds,
                log |-> opened.log]
          ELSE IF ~w.ok
          THEN [ret |-> FALSE, sock |-> bye.sock, fds |-> bye.fds,
                log |-> opened.log \o w.log \o bye.log]
          ELSE IF ~connackOk(env.recv.n, env.recv.header)
          THEN [ret |-> FALSE, sock |-> bye.sock, fds |-> bye.fds,
                log |-> opened.log \o w.log \o <<rcvEv>> \o bye.log]
          ELSE [ret |-> TRUE, sock |-> opened.fd, fds |-> opened.fds,
                log |-> opened.log \o w.log \o <<rcvEv>>]

\* variant of publish without the test of sock_
publishUnguarded(sock, topic, payload, qos, retain, plan) ==
    LET remaining == append_utf8_string(<<>>, topic) \o payload
        header == IF retain THEN 49 ELSE 48
        w == write_all(sock,
                       <<header>> \o encode_varint(Len(remaining))
                                  \o remaining,
                       plan)
    IN  [ret |-> w.ok, log |-> w.log]

\* variant of publish that puts the qos into the fixed header
publishQosBits(sock, topic, payload, qos, retain, plan) ==
    IF sock = -1 THEN [ret |-> FALSE, log |-> <<>>]
    ELSE
      LET remaining == append_utf8_string(<<>>, topic) \o payload
          header == (IF retain THEN 49 ELSE 48) + 2 * qos
          w == write_all(sock,
                         <<header>> \o encode_varint(Len(remaining))
                                    \o remaining,
                         plan)
      IN  [ret |-> w.ok, log |-> w.log]

\* variant of publish that does not look at the result of write_all
publishIgnoreWrite(sock, topic, payload, qos, retain, plan) ==
    IF sock = -1 THEN [ret |-> FALSE, log |-> <<>>]
    ELSE
      LET remaining == append_utf8_string(<<>>, topic) \o payload
          header == IF retain THEN 49 ELSE 48
          w == write_all(sock,
                         <<header>> \o encode_varint(Len(remaining))
                                    \o remaining,
                         plan)
      IN  [ret |-> TRUE, log |-> w.log]

\* publish: [return value, system calls]
publish(sock, topic, payload, qos, retain, plan) ==
    IF sock = -1 THEN [ret |-> FALSE, log |-> <<>>]
    ELSE
      LET var_header == append_utf8_string(<<>>, topic)
          remaining == var_header \o payload
          rl == encode_varint(Len(remaining))
          header == IF retain THEN 49 ELSE 48
          packet == <<header>> \o rl \o remaining
          w == write_all(sock, packet, plan)
      IN  [ret |-> w.ok, log |-> w.log]

\* ------------------------------------------------------------------------
\* MqttClient: inputs, initial state and actions
\* ------------------------------------------------------------------------
AddrOutcomes == SeqsUpTo({"nosock", "refused", "ok"}, MaxAddrs) \ { <<>> }

\* recv(sock_, header, 4): the result and the bytes delivered
RecvResults ==
    { [n |-> -1, header |-> <<>>],
      [n |-> 0, header |-> <<>>],
      [n |-> 2, header |-> <<32, 2>>],
      [n |-> 4, header |-> <<32, 2, 0, 0>>],
      [n |-> 4, header |-> <<32, 3, 1, 0>>],
      [n |-> 4, header |-> <<48, 2, 0, 0>>],
      [n |-> 4, header |-> <<32, 1, 0, 0>>],
      [n |-> 4, header |-> <<32, 2, 0, 5>>] }

NoRecv == [n |-> -1, header |-> <<>>]

Topics == { <<>>, <<97, 47, 98>>, [i \in 1..LongTopicLen |-> 116] }
Payloads == { <<>>, <<123, 125>>, [i \in 1..LongPayloadLen |-> 120] }
QosValues == {0, 1, 2}

InitMqtt ==
    /\ sock_ = -1
    /\ openFds = {}
    /\ ioLog = <<>>
    /\ mqOp = "none"
    /\ mqArgs = "none"
    /\ mqRet = "void"
    /\ mqSockBefore = -1
    /\ mqSession = "never"

\* the answers of the environment are drawn only for the system calls
\* connect() reaches
Connect ==
    /\ mqSession # "destroyed"
    /\ \E resolve \in BOOLEAN :
       \E addrs \in (IF resolve THEN AddrOutcomes ELSE { <<"refused">> }) :
       \E plan \in (IF resolve /\ open_loop(addrs, openFds, <<>>).fd # -1
                    THEN SendPlans ELSE { <<>> }) :
       \E rcv \in (IF /\ resolve
                      /\ open_loop(addrs, openFds, <<>>).fd # -1
                      /\ write_all(lowestFree(openFds), connectPacket, plan).ok
                   THEN RecvResults ELSE { NoRecv }) :
       \E plan2 \in (IF /\ resolve
                        /\ open_loop(addrs, openFds, <<>>).fd # -1
                        /\ ~(/\ write_all(lowestFree(openFds), connectPacket, plan).ok
                             /\ connackOk(rcv.n, rcv.header))
                     THEN SendPlans ELSE { <<>> }) :
       \E r \in { connect(sock_, openFds,
                          [resolve |-> resolve, addrs |-> addrs, plan |-> plan,
                           recv |-> rcv, plan2 |-> plan2]) } :
           /\ sock_' = r.sock
           /\ openFds' = r.fds
           /\ ioLog' = r.log
           /\ mqOp' = "connect"
           /\ mqArgs' = "none"
           /\ mqRet' = r.ret
           /\ mqSockBefore' = sock_
           /\ mqSession' = (IF r.ret THEN "connected"
                            ELSE IF mqSession = "never" THEN "never"
                            ELSE "failed")
           /\ UNCHANGED <<cdVars, viVars, lfVars, vpVars, aiVars, mnVars>>

Publish ==
    /\ mqSession # "destroyed"
    /\ \E topic \in Topics, payload \in Payloads, qos \in QosValues,
          retain \in BOOLEAN :
       \E plan \in (IF sock_ = -1 THEN { <<>> } ELSE SendPlans) :
       \E r \in { publish(sock_, topic, payload, qos, retain, plan) } :
        /\ ioLog' = r.log
        /\ mqOp' = "publish"
        /\ mqArgs' = [topic |-> topic, payload |-> payload, qos |-> qos,
                      retain |-> retain]
        /\ mqRet' = r.ret
        /\ mqSockBefore' = sock_
        /\ UNCHANGED <<sock_, openFds, mqSession, cdVars, viVars, lfVars, vpVars,
                       aiVars, mnVars>>

Disconnect ==
    /\ mqSession # "destroyed"
    /\ \E plan \in (IF sock_ = -1 THEN { <<>> } ELSE SendPlans) :
       \E r \in { disconnect(sock_, openFds, plan) } :
        /\ sock_' = r.sock
        /\ openFds' = r.fds
        /\ ioLog' = r.log
        /\ mqOp' = "disconnect"
        /\ mqArgs' = "none"
        /\ mqRet' = "void"
        /\ mqSockBefore' = sock_
        /\ mqSession' = "closed"
        /\ UNCHANGED <<cdVars, viVars, lfVars, vpVars, aiVars, mnVars>>

\* ~MqttClient: the destructor calls disconnect(); no member function is
\* called on the object afterwards
Destroy ==
    /\ mqSession # "destroyed"
    /\ \E plan \in (IF sock_ = -1 THEN { <<>> } ELSE SendPlans) :
       \E r \in { disconnect(sock_, openFds, plan) } :
        /\ sock_' = r.sock
        /\ openFds' = r.fds
        /\ ioLog' = r.log
        /\ mqOp' = "~MqttClient"
        /\ mqArgs' = "none"
        /\ mqRet' = "void"
        /\ mqSockBefore' = sock_
        /\ mqSession' = "destroyed"
        /\ UNCHANGED <<cdVars, viVars, lfVars, vpVars, aiVars, mnVars>>

NextMqtt ==
    \/ Connect
    \/ Publish
    \/ Disconnect
    \/ Destroy

\* ------------------------------------------------------------------------
\* encode_varint applied to one uint32_t value
\* ------------------------------------------------------------------------
VarintInputs ==
    (0..MaxSmallVarint)
    \cup { 16382, 16383, 16384, 16385, 2097151, 2097152, 2097153,
           268435454, 268435455, 268435456, 2147483647 }

InitVarintIdle ==
    /\ varintIn = 0
    /\ varintOut = <<>>
    /\ varintDone = FALSE

EncodeVarint ==
    /\ ~varintDone
    /\ varintOut' = encode_varint(varintIn)
    /\ varintDone' = TRUE
    /\ UNCHANGED <<varintIn, cdVars, mqVars, lfVars, vpVars, aiVars, mnVars>>

NextVarint == EncodeVarint

\* ------------------------------------------------------------------------
\* Plant analysis (leaf_area.cpp): images
\*
\* A single-channel cv::Mat of 0/255 values is [cols, rows, px] with
\* px[y * cols + x + 1] = 1 for a non-zero pixel (x, y), 0 otherwise.
\* ------------------------------------------------------------------------
RLt(a, b) == a.n * b.d < b.n * a.d

\* the pixel array an OpenCV call writes to its destination
materialize(px) == IF px = <<>> THEN px ELSE px

\* cv::Mat::zeros(size, CV_8UC1)
zeros(cols, rows) ==
    [cols |-> cols, rows |-> rows,
     px |-> materialize([i \in 1..(cols * rows) |-> 0])]

\* skeleton.at<uchar>(y, x) > 0
at(img, x, y) == img.px[y * img.cols + x + 1]

\* cv::erode with the 3x3 cross; pixels outside the image do not
\* constrain the minimum (default border of cv::erode)
erode(img) ==
    [cols |-> img.cols, rows |-> img.rows,
     px |-> materialize(
        [i \in 1..(img.cols * img.rows) |->
            LET x == (i - 1) % img.cols
                y == (i - 1) \div img.cols
            IN  IF /\ img.px[i] = 1
                   /\ (x = 0 \/ img.px[i - 1] = 1)
                   /\ (x = img.cols - 1 \/ img.px[i + 1] = 1)
                   /\ (y = 0 \/ img.px[i - img.cols] = 1)
                   /\ (y = img.rows - 1 \/ img.px[i + img.cols] = 1)
                THEN 1 ELSE 0])]

\* cv::dilate with the 3x3 cross; pixels outside the image do not
\* contribute to the maximum
dilate(img) ==
    [cols |-> img.cols, rows |-> img.rows,
     px |-> materialize(
        [i \in 1..(img.cols * img.rows) |->
            LET x == (i - 1) % img.cols
                y == (i - 1) \div img.cols
            IN  IF \/ img.px[i] = 1
                   \/ (x > 0 /\ img.px[i - 1] = 1)
                   \/ (x < img.cols - 1 /\ img.px[i + 1] = 1)
                   \/ (y > 0 /\ img.px[i - img.cols] = 1)
                   \/ (y < img.rows - 1 /\ img.px[i + img.cols] = 1)
                THEN 1 ELSE 0])]

\* cv::morphologyEx(src, dst, cv::MORPH_OPEN, element)
morphOpen(img) == dilate(erode(img))

countNonZero(img) ==
    Cardinality({ i \in 1..(img.cols * img.rows) : img.px[i] = 1 })

\* the do-while loop of skeletonize; returns = FALSE: the loop is entered
\* again with the temp and skeleton it was entered with, so the call never
\* returns
RECURSIVE skeletonize_loop(_, _)
skeletonize_loop(temp, skeleton) ==
    LET eroded == erode(temp)
        opening == morphOpen(eroded)
        merged ==
            [cols |-> skeleton.cols, rows |-> skeleton.rows,
             px |-> materialize(
                [i \in 1..(skeleton.cols * skeleton.rows) |->
                    IF \/ skeleton.px[i] = 1
                       \/ (eroded.px[i] = 1 /\ opening.px[i] = 0)
                    THEN 1 ELSE 0])]
    IN  IF ~(countNonZero(eroded) > 0)
        THEN [returns |-> TRUE, skeleton |-> merged]
        ELSE IF eroded.px = temp.px /\ merged.px = skeleton.px
        THEN [returns |-> FALSE, skeleton |-> merged]
        ELSE skeletonize_loop(eroded, merged)

\* skeletonize of leaf_area.cpp (no iteration cap)
skeletonize(binaryMask) ==
    skeletonize_loop([cols |-> binaryMask.cols, rows |-> binaryMask.rows,
                      px |-> materialize(binaryMask.px)],
                     zeros(binaryMask.cols, binaryMask.rows))

\* the neighbour count of classifyPlantType: 8-neighbours inside the image
neighbors(skeleton, x, y) ==
    Cardinality({ d \in (-1..1) \X (-1..1) :
        /\ d # <<0, 0>>
        /\ y + d[2] >= 0 /\ y + d[2] < skeleton.rows
        /\ x + d[1] >= 0 /\ x + d[1] < skeleton.cols
        /\ at(skeleton, x + d[1], y + d[2]) > 0 })

\* originConnections of classifyPlantType
countOriginConnections(skeleton, bbox, cols, rows) ==
    LET searchRadius == Min2(bbox.height, bbox.width) \div 4
        localBottom == [x |-> cols \div 2, y |-> rows - 5]
        ys == Max2(0, localBottom.y - searchRadius)
                  .. (Min2(rows, localBottom.y + searchRadius) - 1)
        xs == Max2(0, localBottom.x - searchRadius)
                  .. (Min2(cols, localBottom.x + searchRadius) - 1)
    IN  Cardinality({ p \in xs \X ys :
            /\ at(skeleton, p[1], p[2]) > 0
            /\ neighbors(skeleton, p[1], p[2]) >= 2 })


\* ------------------------------------------------------------------------
\* Plant analysis: what OpenCV reports about a crop, a contour and a frame
\*
\* A crop handed to classifyPlantType is [binary, contour]: binary is the
\* image cv::threshold(THRESH_BINARY_INV + THRESH_OTSU) makes of it,
\* contour is what findContours / contourArea / convexHull / fitEllipse
\* report of the largest external contour of binary (points = 0: findContours
\* returned no contour).
\* ------------------------------------------------------------------------
MkContour(points, area, hullArea, w, h) ==
    [points |-> points, area |-> area, hullArea |-> hullArea,
     ellipse |-> [width |-> w, height |-> h]]

NoContour == MkContour(0, RZero, RZero, RZero, RZero)

Rect(x, y, width, height) ==
    [x |-> x, y |-> y, width |-> width, height |-> height]

\* a plant with a stem and two side shoots, in the lower half of a
\* 54 x 54 crop
plantShape(x, y) ==
    \/ (y >= 43 /\ y <= 45 /\ x >= 15 /\ x <= 39)
    \/ (x >= 26 /\ x <= 28 /\ y >= 32 /\ y <= 52)

\* a seedling in the upper left of a 54 x 54 crop
seedlingShape(x, y) ==
    /\ x >= 8 /\ x <= 17 /\ y >= 6 /\ y <= 15
    /\ Abs(2 * x - 25) + Abs(2 * y - 21) <= 14

\* whether pixel (x, y) of the binarized crop roi is foreground, that is,
\* at or below Otsu's threshold
foreground(roi, x, y) ==
    CASE roi = "cross" ->
           \/ (y >= 6 /\ y <= 8)
           \/ (x >= 5 /\ x <= 7 /\ y >= 1)
      [] roi = "octagon" ->
           /\ x >= 2 /\ x <= 9 /\ y >= 2 /\ y <= 9
           /\ Abs(2 * x - 11) + Abs(2 * y - 11) <= 12
      [] roi = "bar" ->
           \/ (y >= 6 /\ y <= 8)
           \/ (y = 5 /\ x >= 2 /\ x <= 3)
      [] roi = "speck" -> x = 4 /\ y = 7
      [] roi \in { "black", "blackFrame", "blackTiny" } -> TRUE
      [] roi \in { "uniform", "whiteFrame", "strip" } -> FALSE
      [] roi = "plant" -> plantShape(x + 15, y + 32)
      [] roi = "seedling" -> seedlingShape(x + 8, y + 6)
      [] roi = "plantFrame" -> plantShape(x, y)
      [] roi = "seedlingFrame" -> plantShape(x, y) \/ seedlingShape(x, y)
      [] roi = "darkFrame" -> ~(plantShape(x, y) \/ seedlingShape(x, y))
      [] roi = "plantOnDark" -> ~plantShape(x + 15, y + 32)
      [] roi = "seedlingOnDark" -> ~seedlingShape(x + 8, y + 6)

\* the binarized crop roi as an image of the given size
MkMat(cols, rows, roi) ==
    [cols |-> cols, rows |-> rows,
     px |-> [i \in 1..(cols * rows) |->
                IF foreground(roi, (i - 1) % cols, (i - 1) \div cols)
                THEN 1 ELSE 0]]

\* crops by name.  The 12 x 12 crops are handed to classifyPlantType
\* directly; the others are the crops analyzePlants cuts out of the sample
\* frames.
RoiNames ==
    { "uniform", "black", "speck", "octagon", "cross", "bar",
      "seedling", "plant", "plantFrame", "seedlingFrame", "blackFrame",
      "whiteFrame", "blackTiny", "strip", "darkFrame", "plantOnDark",
      "seedlingOnDark" }

Rois ==
    [ name \in RoiNames |->
        CASE name = "uniform" ->
               \* one colour other than black: Otsu's threshold is 0 and no
               \* pixel is at or below it
               [binary |-> MkMat(12, 12, name), contour |-> NoContour]
          [] name = "black" ->
               \* all black: every pixel is foreground, the contour is the
               \* image rectangle
               [binary |-> MkMat(12, 12, name),
                contour |-> MkContour(4, RInt(121), RInt(121),
                                      RZero, RZero)]
          [] name = "speck" ->
               [binary |-> MkMat(12, 12, name),
                contour |-> MkContour(1, RZero, RZero, RZero, RZero)]
          [] name = "octagon" ->
               [binary |-> MkMat(12, 12, name),
                contour |-> MkContour(8, RInt(47), RInt(47),
                                      RInt(8), RInt(8))]
          [] name = "cross" ->
               [binary |-> MkMat(12, 12, name),
                contour |-> MkContour(12, RInt(38), RInt(74),
                                      RInt(11), RInt(10))]
          [] name = "bar" ->
               [binary |-> MkMat(12, 12, name),
                contour |-> MkContour(8, RInt(23), RInt(28),
                                      RInt(13), RInt(3))]
          [] name = "seedling" ->
               \* the crop around the seedling of the sample frames
               [binary |-> MkMat(10, 10, name),
                contour |-> MkContour(8, RInt(73), RInt(73),
                                      RInt(10), RInt(10))]
          [] name = "plant" ->
               \* the crop around the plant of the sample frames
               [binary |-> MkMat(25, 21, name),
                contour |-> MkContour(12, RInt(84), RInt(282),
                                      RInt(25), RInt(21))]
          [] name = "plantFrame" ->
               \* bright frame with the dark plant only
               [binary |-> MkMat(54, 54, name),
                contour |-> MkContour(12, RInt(84), RInt(282),
                                      RInt(25), RInt(21))]
          [] name = "seedlingFrame" ->
               \* bright frame with the dark plant and the dark seedling
               [binary |-> MkMat(54, 54, name),
                contour |-> MkContour(12, RInt(84), RInt(282),
                                      RInt(25), RInt(21))]
          [] name = "blackFrame" ->
               [binary |-> MkMat(638, 478, name),
                contour |-> MkContour(4, RInt(637 * 477), RInt(637 * 477),
                                      RZero, RZero)]
          [] name = "whiteFrame" ->
               [binary |-> MkMat(638, 478, name), contour |-> NoContour]
          [] name = "blackTiny" ->
               [binary |-> MkMat(6, 6, name),
                contour |-> MkContour(4, RInt(25), RInt(25), RZero, RZero)]
          [] name = "strip" ->
               [binary |-> MkMat(2, 120, name), contour |-> NoContour]
          [] name = "darkFrame" ->
               \* dark frame with the brighter plant and seedling: the
               \* ground is one component with two holes, its external
               \* contour is the image rectangle
               [binary |-> MkMat(54, 54, name),
                contour |-> MkContour(4, RInt(53 * 53), RInt(53 * 53),
                                      RZero, RZero)]
          [] name = "plantOnDark" ->
               \* the ground left and right of the stem, above the shoots:
               \* 11 x 11 squares
               [binary |-> MkMat(25, 21, name),
                contour |-> MkContour(4, RInt(100), RInt(100),
                                      RZero, RZero)]
          [] name = "seedlingOnDark" ->
               \* the ground in the corners of the box: 3 pixels each
               [binary |-> MkMat(10, 10, name),
                contour |-> MkContour(3, Rat(1, 2), Rat(1, 2),
                                      RZero, RZero)] ]


\* what the segmentation and the per-instance OpenCV calls report about one
\* contour of a frame: contourArea, boundingRect, the crop at the bounding
\* box, cv::mean of the crop (<<B, G, R>>) and the numbers of brown spots
\* and yellow areas detectBrownSpots / detectYellowAreas find in it
MkRegion(area, bbox, roi, meanColor, brown, yellow) ==
    [area |-> area, bbox |-> bbox, roi |-> roi, meanColor |-> meanColor,
     brownSpots |-> brown, yellowAreas |-> yellow]

plantRegion ==
    MkRegion(RInt(282), Rect(16, 33, 25, 21), "plant", <<60, 140, 70>>, 1, 0)

seedlingRegion ==
    MkRegion(RInt(73), Rect(9, 7, 10, 10), "seedling", <<40, 200, 60>>, 0, 1)

\* the plant and the seedling of the frame "plantsOnDark"
darkPlantRegion ==
    MkRegion(RInt(282), Rect(16, 33, 25, 21), "plantOnDark",
             <<48, 96, 54>>, 0, 0)

darkSeedlingRegion ==
    MkRegion(RInt(73), Rect(9, 7, 10, 10), "seedlingOnDark",
             <<44, 150, 58>>, 0, 0)

\* a frame: its size, the seed regions the distance transform yields (in
\* the order findContours reports them), the contours of the grayscale
\* fallback, and crop, mean colour and disease counts of the region the
\* background marker floods
MkFrame(cols, rows, seeds, fallback, bgRoi, bgColor) ==
    [empty |-> FALSE, cols |-> cols, rows |-> rows, seeds |-> seeds,
     fallback |-> fallback, bgRoi |-> bgRoi, bgColor |-> bgColor]

FrameNames ==
    { "empty", "black", "blackTiny", "white", "strip", "plantOnly",
      "plantAndSeedling", "seedlingAndPlant", "plantsOnDark" }

Frames ==
    [ name \in FrameNames |->
        CASE name = "empty" ->
               [empty |-> TRUE, cols |-> 0, rows |-> 0, seeds |-> <<>>,
                fallback |-> <<>>, bgRoi |-> "uniform",
                bgColor |-> <<0, 0, 0>>]
          [] name = "black" ->
               MkFrame(640, 480, <<>>, <<>>, "blackFrame", <<0, 0, 0>>)
          [] name = "blackTiny" ->
               MkFrame(8, 8, <<>>, <<>>, "blackTiny", <<0, 0, 0>>)
          [] name = "white" ->
               MkFrame(640, 480, <<>>, <<>>, "whiteFrame",
                       <<255, 255, 255>>)
          [] name = "strip" ->
               MkFrame(2, 120, <<>>,
                       << MkRegion(RInt(119), Rect(0, 0, 2, 120), "strip",
                                   <<200, 200, 200>>, 0, 0) >>,
                       "strip", <<200, 200, 200>>)
          [] name = "plantOnly" ->
               MkFrame(56, 56, << plantRegion >>, <<>>, "plantFrame",
                       <<225, 228, 226>>)
          [] name = "plantAndSeedling" ->
               MkFrame(56, 56, << plantRegion, seedlingRegion >>, <<>>,
                       "seedlingFrame", <<220, 226, 221>>)
          [] name = "seedlingAndPlant" ->
               MkFrame(56, 56, << seedlingRegion, plantRegion >>, <<>>,
                       "seedlingFrame", <<220, 226, 221>>)
          [] name = "plantsOnDark" ->
               MkFrame(56, 56, << darkPlantRegion, darkSeedlingRegion >>,
                       <<>>, "darkFrame", <<32, 48, 36>>) ]

\* cv::circle(markers, cv::Point(5,5), 3, ...) sets a pixel of the image
circleInside(cols, rows) ==
    \E x \in 0..(Min2(cols, 9) - 1), y \in 0..(Min2(rows, 9) - 1) :
        (x - 5) * (x - 5) + (y - 5) * (y - 5) <= 9

\* the region of the label 255: cv::watershed gives it every pixel no seed
\* claims, the one-pixel image border excepted; its convex hull is the
\* rectangle (1, 1) .. (cols - 2, rows - 2) when no seed reaches a corner
backgroundRegion(frame) ==
    MkRegion(RInt((frame.cols - 3) * (frame.rows - 3)),
             Rect(1, 1, frame.cols - 2, frame.rows - 2),
             frame.bgRoi, frame.bgColor, 0, 0)

\* watershedInstances: the seeds are labelled 1, 2, ... (cv::Scalar(i + 1),
\* i from 0), the background marker 255; the hull of every label > 1 is
\* returned, in the order of the labels
watershedInstances(frame) ==
    LET labelled ==
            [i \in 1..Len(frame.seeds) |->
                [id |-> i, region |-> frame.seeds[i]]]
              \o (IF circleInside(frame.cols, frame.rows)
                  THEN << [id |-> 255, region |-> backgroundRegion(frame)] >>
                  ELSE <<>>)
        kept == SelectSeq(labelled, LAMBDA m : m.id > 1)
    IN  [i \in 1..Len(kept) |-> kept[i].region]


\* ------------------------------------------------------------------------
\* Plant analysis: classifyPlantType
\* ------------------------------------------------------------------------
calculateSolidity(contour) ==
    IF contour.points = 0 THEN RZero
    ELSE IF contour.hullArea.n > 0
         THEN RDiv(contour.area, contour.hullArea)
         ELSE RZero

\* aspectRatio < 3.0, for aspectRatio = max(width, height) /
\* min(width, height) of the fitted ellipse: false when the quotient is
\* infinite or NaN (min = 0)
aspectRatioBelow3(ellipse) ==
    LET hi == IF RLt(ellipse.width, ellipse.height)
              THEN ellipse.height ELSE ellipse.width
        lo == IF RLt(ellipse.height, ellipse.width)
              THEN ellipse.height ELSE ellipse.width
    IN  lo.n > 0 /\ RLt(RDiv(hi, lo), RInt(3))

\* classifyPlantType: "SPROUT", "PLANT", "cv::Exception" when
\* cv::fitEllipse is handed fewer than 5 points, "no return" when
\* skeletonize does not return
classifyPlantTypeOf(roi, bbox, areaPixels, scalePxPerCm) ==
    IF RLt(areaPixels, RInt(2500)) THEN "SPROUT"
    ELSE IF /\ RGt(scalePxPerCm, RZero)
            /\ RLt(RDiv(RInt(bbox.height), scalePxPerCm), RInt(5))
    THEN "SPROUT"
    ELSE IF Rois[roi].contour.points = 0 THEN "PLANT"
    ELSE
      LET binary == Rois[roi].binary
          largestContour == Rois[roi].contour
          solidity == calculateSolidity(largestContour)
          sk == skeletonize(binary)
          originConnections ==
              countOriginConnections(sk.skeleton, bbox,
                                     binary.cols, binary.rows)
      IN  IF largestContour.points < 5 THEN "cv::Exception"
          ELSE IF /\ RGt(solidity, Rat(75, 100))
                  /\ aspectRatioBelow3(largestContour.ellipse)
                  /\ RLt(areaPixels, RInt(4000))
          THEN "SPROUT"
          ELSE IF ~sk.returns THEN "no return"
          ELSE IF originConnections <= 3 /\ RLt(areaPixels, RInt(3500))
          THEN "SPROUT"
          ELSE "PLANT"

\* arguments of the classifyPlantType calls made directly
ClassifyRois == { "uniform", "black", "speck", "octagon", "cross", "bar" }

ClassifyBoxes == { Rect(0, 0, 12, 12), Rect(3, 4, 12, 10) }

ClassifyAreas ==
    { RInt(51), RInt(2499), Rat(4999, 2), RInt(2500), RInt(3499),
      RInt(3500), RInt(3999), RInt(4000), RInt(6000) }

ClassifyScales == { RInt(-1), RZero, RInt(2), RInt(3) }

\* scales handed to analyzePlants (0: unknown)
AnalyzeScales == { RZero, RInt(10), RInt(100) }

\* every argument tuple of classifyPlantType the model evaluates: the
\* direct calls and the calls analyzePlants makes per contour
ClassifyInputs ==
    (ClassifyRois \X ClassifyBoxes \X ClassifyAreas \X ClassifyScales)
    \cup
    { <<r.roi, r.bbox, r.area, s>> :
        r \in UNION { { Frames[f].seeds[i] : i \in 1..Len(Frames[f].seeds) }
                      \cup { Frames[f].fallback[i] :
                               i \in 1..Len(Frames[f].fallback) }
                      \cup { backgroundRegion(Frames[f]) } :
                      f \in FrameNames \ { "empty" } },
        s \in AnalyzeScales }

classifyPlantTypeTable ==
    materialize(
      [ a \in ClassifyInputs |->
          classifyPlantTypeOf(a[1], a[2], a[3], a[4]) ])

classifyPlantType(roi, bbox, areaPixels, scalePxPerCm) ==
    classifyPlantTypeTable[<<roi, bbox, areaPixels, scalePxPerCm>>]


\* ------------------------------------------------------------------------
\* Plant analysis: per-instance processing and analyzePlants
\* ------------------------------------------------------------------------
\* std::max and std::min of doubles
RMax(a, b) == IF RLt(a, b) THEN b ELSE a
RMin(a, b) == IF RLt(b, a) THEN b ELSE a

\* variant of calculateHealthScore that returns the score as computed
calculateHealthScoreUnclamped(meanColor, type) ==
    LET greenBias == RSub(RInt(meanColor[2]),
                          RDivInt(RInt(meanColor[3] + meanColor[1]), 2))
        healthScore == RAdd(RInt(60), RDivInt(greenBias, 2))
    IN  IF type = "SPROUT"
        THEN RAdd(RMul(healthScore, Rat(9, 10)), RInt(10))
        ELSE healthScore

\* meanColor is <<B, G, R>>
calculateHealthScore(meanColor, type) ==
    LET b == RInt(meanColor[1])
        g == RInt(meanColor[2])
        r == RInt(meanColor[3])
        greenBias == RSub(g, RDivInt(RAdd(r, b), 2))
        healthScore == RAdd(RInt(60), RDivInt(greenBias, 2))
        adjusted == IF type = "SPROUT"
                    THEN RAdd(RMul(healthScore, Rat(9, 10)), RInt(10))
                    ELSE healthScore
    IN  RMax(RZero, RMin(RInt(100), adjusted))

\* bbox & cv::Rect(0, 0, frame.cols, frame.rows)
rectAnd(bbox, cols, rows) ==
    LET x1 == Max2(bbox.x, 0)
        y1 == Max2(bbox.y, 0)
        x2 == Min2(bbox.x + bbox.width, cols)
        y2 == Min2(bbox.y + bbox.height, rows)
    IN  IF x2 > x1 /\ y2 > y1 THEN Rect(x1, y1, x2 - x1, y2 - y1)
        ELSE Rect(0, 0, 0, 0)

\* the part processSprout and processPlant share; type is "SPROUT" or
\* "PLANT".  Of PlantInstance the fields the analysis result is summed
\* from, the colour and the disease counts are kept.
processInstance(frame, region, scalePxPerCm, type) ==
    LET roi == rectAnd(region.bbox, frame.cols, frame.rows)
        seen == roi.width > 0 /\ roi.height > 0
        meanColor == IF seen THEN region.meanColor ELSE <<0, 0, 0>>
        brownSpotCount == IF seen THEN region.brownSpots ELSE 0
        yellowAreaCount == IF seen THEN region.yellowAreas ELSE 0
        diseaseReduction == RInt(brownSpotCount * 5 + yellowAreaCount * 3)
    IN  [type |-> type,
         boundingBox |-> region.bbox,
         areaPixels |-> region.area,
         areaCm2 |-> IF RGt(scalePxPerCm, RZero)
                     THEN RDiv(region.area,
                               RMul(scalePxPerCm, scalePxPerCm))
                     ELSE RZero,
         heightCm |-> IF RGt(scalePxPerCm, RZero)
                      THEN RDiv(RInt(region.bbox.height), scalePxPerCm)
                      ELSE RZero,
         meanColor |-> meanColor,
         brownSpotCount |-> brownSpotCount,
         yellowAreaCount |-> yellowAreaCount,
         healthScore |->
             RMax(RZero, RSub(calculateHealthScore(meanColor, type),
                              diseaseReduction)),
         classification |-> IF type = "SPROUT" THEN "sprout" ELSE "plant"]

processSprout(frame, region, scalePxPerCm) ==
    processInstance(frame, region, scalePxPerCm, "SPROUT")

processPlant(frame, region, scalePxPerCm) ==
    processInstance(frame, region, scalePxPerCm, "PLANT")

\* values an uninitialized int or double member may hold
Indeterminate == { 0, 7 }

\* the members of PlantAnalysisResult without an initializer, as
\* "PlantAnalysisResult result;" leaves them
UninitResults ==
    [totalInstanceCount : Indeterminate, sproutCount : Indeterminate,
     plantCount : Indeterminate, totalAreaPixels : Indeterminate,
     totalAreaCm2 : Indeterminate]

\* the contours analyzePlants loops over
segment(frame) ==
    LET contours == watershedInstances(frame)
    IN  IF contours = <<>> THEN frame.fallback ELSE contours

\* the body of the loop for one contour of more than 50 pixels, given its
\* type and the instance made of it: the counters and totals afterwards
accumulate(result, type, instance) ==
    [result EXCEPT
       !.sproutCount = IF type = "SPROUT" THEN @ + 1 ELSE @,
       !.plantCount = IF type = "SPROUT" THEN @ ELSE @ + 1,
       !.instances = Append(@, instance),
       !.totalAreaPixels = RAdd(@, instance.areaPixels),
       !.totalAreaCm2 = RAdd(@, instance.areaCm2)]

\* the loop over the contours, from contour k on; analyze_contour is the
\* rest of the loop once classifyPlantType has ended with type for
\* contour k
RECURSIVE analyze_loop(_, _, _, _, _)
RECURSIVE analyze_contour(_, _, _, _, _, _)
analyze_contour(frame, contours, k, scalePxPerCm, result, type) ==
    IF type \notin { "SPROUT", "PLANT" }
    THEN [outcome |-> type, result |-> result]
    ELSE analyze_loop(frame, contours, k + 1, scalePxPerCm,
            accumulate(result, type,
                IF type = "SPROUT"
                THEN processSprout(frame, contours[k], scalePxPerCm)
                ELSE processPlant(frame, contours[k], scalePxPerCm)))

analyze_loop(frame, contours, k, scalePxPerCm, result) ==
    IF k > Len(contours) THEN [outcome |-> "returned", result |-> result]
    ELSE IF ~RGt(contours[k].area, RInt(50))
    THEN analyze_loop(frame, contours, k + 1, scalePxPerCm, result)
    ELSE analyze_contour(frame, contours, k, scalePxPerCm, result,
            classifyPlantType(contours[k].roi, contours[k].bbox,
                              contours[k].area, scalePxPerCm))

RECURSIVE SumHealth(_)
SumHealth(instances) ==
    IF instances = <<>> THEN RZero
    ELSE RAdd(Head(instances).healthScore, SumHealth(Tail(instances)))

\* "PlantAnalysisResult result; result.scalePxPerCm = scalePxPerCm;":
\* uninit gives the values the members without initializer hold
declareResult(scalePxPerCm, uninit) ==
    [scalePxPerCm |-> scalePxPerCm,
     totalInstanceCount |-> uninit.totalInstanceCount,
     sproutCount |-> uninit.sproutCount,
     plantCount |-> uninit.plantCount,
     totalAreaPixels |-> RInt(uninit.totalAreaPixels),
     totalAreaCm2 |-> RInt(uninit.totalAreaCm2),
     instances |-> <<>>,
     averageHealth |-> RZero]

\* the number of instances of type SPROUT
countSprouts(instances) ==
    Cardinality({ i \in 1..Len(instances) : instances[i].type = "SPROUT" })

\* the summary statistics computed after the loop
summarize(result) ==
    [result EXCEPT
       !.totalInstanceCount = Len(result.instances),
       !.sproutCount = countSprouts(result.instances),
       !.plantCount = Len(result.instances) - countSprouts(result.instances),
       !.averageHealth =
           IF result.instances # <<>>
           THEN RDivInt(SumHealth(result.instances), Len(result.instances))
           ELSE @]

\* the end of analyzePlants, given how the loop ended
finish(looped) ==
    IF looped.outcome # "returned" THEN [outcome |-> looped.outcome]
    ELSE [outcome |-> "returned", result |-> summarize(looped.result)]

\* analyzePlants: [outcome, result]; outcome is "returned", or what the
\* call ended with instead of returning
analyzePlants(frame, scalePxPerCm, uninit) ==
    IF frame.empty
    THEN [outcome |-> "returned",
          result |-> declareResult(scalePxPerCm, uninit)]
    ELSE finish(analyze_loop(frame, segment(frame), 1, scalePxPerCm,
                             declareResult(scalePxPerCm, uninit)))

\* ------------------------------------------------------------------------
\* MorphologyAnalyzer (morphology_analysis.cpp): skeletonize
\* ------------------------------------------------------------------------
\* "int max_iterations = 100;"
max_iterations == 100

\* the count of the 8 neighbours of an interior pixel that are set
pruneNeighbors(skeleton, x, y) ==
    Cardinality({ d \in (-1..1) \X (-1..1) :
        d # <<0, 0>> /\ at(skeleton, x + d[1], y + d[2]) > 0 })

\* one round of prunesSkeleton: the pixels to remove are collected from
\* the skeleton as the round finds it, then cleared
pruneRound(skeleton) ==
    [cols |-> skeleton.cols, rows |-> skeleton.rows,
     px |-> materialize(
        [i \in 1..(skeleton.cols * skeleton.rows) |->
            LET x == (i - 1) % skeleton.cols
                y == (i - 1) \div skeleton.cols
            IN  IF /\ skeleton.px[i] # 0
                   /\ x >= 1 /\ x < skeleton.cols - 1
                   /\ y >= 1 /\ y < skeleton.rows - 1
                   /\ pruneNeighbors(skeleton, x, y) <= 1
                THEN 0 ELSE skeleton.px[i]])]

\* prunesSkeleton(skeleton, iterations): the skeleton afterwards
RECURSIVE prunesSkeleton(_, _)
prunesSkeleton(skeleton, iterations) ==
    IF skeleton.cols * skeleton.rows = 0 \/ iterations <= 0 THEN skeleton
    ELSE prunesSkeleton(pruneRound(skeleton), iterations - 1)

\* cv::bitwise_or(skeleton, eroded - opening, skeleton)
thin(skeleton, eroded, opening) ==
    [cols |-> skeleton.cols, rows |-> skeleton.rows,
     px |-> materialize(
        [i \in 1..(skeleton.cols * skeleton.rows) |->
            IF \/ skeleton.px[i] = 1
               \/ (eroded.px[i] = 1 /\ opening.px[i] = 0)
            THEN 1 ELSE 0])]

\* the do-while loop of MorphologyAnalyzer::skeletonize, entered with
\* temp, skeleton and iterations; thinned(...) is the rest of the body
\* once temp has been eroded and the skeleton extended.
\* [iterations, capped, skeleton]: the number of times the body ran,
\* whether the loop was left by the break, and the skeleton the loop
\* leaves.  A run of the body that changes neither temp nor skeleton is
\* repeated unchanged until iterations exceeds max_iterations.
RECURSIVE thinning_loop(_, _, _)
thinned(temp, before, eroded, skeleton, iterations) ==
    IF iterations > max_iterations
    THEN [iterations |-> iterations, capped |-> TRUE, skeleton |-> skeleton]
    ELSE IF ~(countNonZero(eroded) > 0)
    THEN [iterations |-> iterations, capped |-> FALSE, skeleton |-> skeleton]
    ELSE IF eroded.px = temp.px /\ skeleton.px = before.px
    THEN [iterations |-> max_iterations + 1, capped |-> TRUE,
          skeleton |-> skeleton]
    ELSE thinning_loop(eroded, skeleton, iterations)

thinning_step(temp, eroded, skeleton, iterations) ==
    thinned(temp, skeleton, eroded,
            thin(skeleton, eroded, morphOpen(eroded)), iterations + 1)

thinning_loop(temp, skeleton, iterations) ==
    thinning_step(temp, erode(temp), skeleton, iterations)

\* the end of MorphologyAnalyzer::skeletonize, given how the loop ended
pruned(looped) ==
    [empty |-> FALSE, iterations |-> looped.iterations,
     capped |-> looped.capped, thinned |-> looped.skeleton,
     skeleton |-> prunesSkeleton(looped.skeleton, 2)]

\* MorphologyAnalyzer::skeletonize: the skeleton returned, with the
\* number of times the loop body ran and the skeleton before pruning
MorphologyAnalyzer_skeletonize(binary_mask) ==
    IF binary_mask.cols * binary_mask.rows = 0
    THEN [empty |-> TRUE, iterations |-> 0, capped |-> FALSE,
          thinned |-> binary_mask, skeleton |-> binary_mask]
    ELSE pruned(thinning_loop(
            [cols |-> binary_mask.cols, rows |-> binary_mask.rows,
             px |-> materialize(binary_mask.px)],
            zeros(binary_mask.cols, binary_mask.rows), 0))

\* masks handed to MorphologyAnalyzer::skeletonize: the empty cv::Mat and
\* the binarized 12 x 12 crops
MaskNames == ClassifyRois \cup { "emptyMat" }

Masks ==
    [ name \in MaskNames |->
        IF name = "emptyMat" THEN [cols |-> 0, rows |-> 0, px |-> <<>>]
        ELSE Rois[name].binary ]

\* ------------------------------------------------------------------------
\* Plant analysis: inputs and actions
\* ------------------------------------------------------------------------
\* most brown spots and most yellow areas found in one crop
MaxSpots == 2

\* channel values of the mean colours handed to processSprout /
\* processPlant
ColorLevels == { 0, 128, 255 }

\* no call of the plant analysis pending
InitLeaf ==
    /\ lfOp = "none"
    /\ lfArgs = "none"
    /\ lfDone = FALSE
    /\ lfRet = "none"

\* a contour of the frame "plantOnly" with every mean colour and every
\* number of disease marks
ProcessInputs ==
    { MkRegion(RInt(282), Rect(16, 33, 25, 21), "plant", <<b, g, r>>,
               brown, yellow) :
        b \in ColorLevels, g \in ColorLevels, r \in ColorLevels,
        brown \in 0..MaxSpots, yellow \in 0..MaxSpots }

\* one call of one of the functions, with each of the inputs
InitLeafCall ==
    /\ lfOp \in { "classifyPlantType", "processSprout", "processPlant",
                  "analyzePlants", "watershedInstances", "skeletonize" }
    /\ lfArgs \in
         CASE lfOp = "classifyPlantType" ->
                [roi : ClassifyRois, bbox : ClassifyBoxes,
                 areaPixels : ClassifyAreas, scalePxPerCm : ClassifyScales]
           [] lfOp \in { "processSprout", "processPlant" } ->
                [frame : { "plantOnly" }, region : ProcessInputs,
                 scalePxPerCm : AnalyzeScales]
           [] lfOp = "analyzePlants" ->
                [frame : FrameNames, scalePxPerCm : AnalyzeScales]
           [] lfOp = "watershedInstances" -> [frame : FrameNames]
           [] lfOp = "skeletonize" -> [binary_mask : MaskNames]
    /\ lfDone = FALSE
    /\ lfRet = "none"

ClassifyPlantType ==
    /\ lfOp = "classifyPlantType" /\ ~lfDone
    /\ lfDone' = TRUE
    /\ lfRet' = classifyPlantType(lfArgs.roi, lfArgs.bbox, lfArgs.areaPixels,
                                  lfArgs.scalePxPerCm)
    /\ UNCHANGED <<lfOp, lfArgs, cdVars, mqVars, viVars, vpVars,
                   aiVars, mnVars>>

ProcessSprout ==
    /\ lfOp = "processSprout" /\ ~lfDone
    /\ lfDone' = TRUE
    /\ lfRet' = processSprout(Frames[lfArgs.frame], lfArgs.region,
                              lfArgs.scalePxPerCm)
    /\ UNCHANGED <<lfOp, lfArgs, cdVars, mqVars, viVars, vpVars,
                   aiVars, mnVars>>

ProcessPlant ==
    /\ lfOp = "processPlant" /\ ~lfDone
    /\ lfDone' = TRUE
    /\ lfRet' = processPlant(Frames[lfArgs.frame], lfArgs.region,
                             lfArgs.scalePxPerCm)
    /\ UNCHANGED <<lfOp, lfArgs, cdVars, mqVars, viVars, vpVars,
                   aiVars, mnVars>>

AnalyzePlants ==
    /\ lfOp = "analyzePlants" /\ ~lfDone
    /\ lfDone' = TRUE
    /\ \E uninit \in UninitResults :
        \E r \in { analyzePlants(Frames[lfArgs.frame], lfArgs.scalePxPerCm,
                                 uninit) } :
            lfRet' = r
    /\ UNCHANGED <<lfOp, lfArgs, cdVars, mqVars, viVars, vpVars,
                   aiVars, mnVars>>

\* the instance separation on the mask of a frame, as analyzePlants calls
\* it: the contours appended to the empty vector "instances"
WatershedInstances ==
    /\ lfOp = "watershedInstances" /\ ~lfDone
    /\ lfDone' = TRUE
    /\ lfRet' = [instances |-> watershedInstances(Frames[lfArgs.frame])]
    /\ UNCHANGED <<lfOp, lfArgs, cdVars, mqVars, viVars, vpVars,
                   aiVars, mnVars>>

\* one call of MorphologyAnalyzer::skeletonize
Skeletonize ==
    /\ lfOp = "skeletonize" /\ ~lfDone
    /\ lfDone' = TRUE
    /\ lfRet' = MorphologyAnalyzer_skeletonize(Masks[lfArgs.binary_mask])
    /\ UNCHANGED <<lfOp, lfArgs, cdVars, mqVars, viVars, vpVars,
                   aiVars, mnVars>>

NextLeaf ==
    \/ ClassifyPlantType
    \/ ProcessSprout
    \/ ProcessPlant
    \/ AnalyzePlants
    \/ WatershedInstances
    \/ Skeletonize

\* ------------------------------------------------------------------------
\* VisionProcessor (vision_processor.cpp)
\*
\* A frame is a name; VpFrames gives what the OpenCV calls of the processor
\* report about it: emptiness, channel count, size, the gray image
\* (cv::cvtColor COLOR_BGR2GRAY, one value per pixel), and for the plant
\* mask of createPlantMask the number of mask pixels and the mean hue and
\* saturation under the mask.  A cv::Mat member holds the name of the frame
\* copied into it, "empty" for an empty cv::Mat.
\* ------------------------------------------------------------------------
MkVpFrame(channels, cols, rows, gray, green, hue, sat) ==
    [empty |-> FALSE, channels |-> channels, cols |-> cols, rows |-> rows,
     gray |-> gray, total_green_pixels |-> green,
     mean_hue |-> hue, mean_sat |-> sat]

VpFrameNames == { "empty", "gray", "leafy", "leafy2", "grown", "bare", "wide" }

VpFrames ==
    [ name \in VpFrameNames |->
        CASE name = "empty" ->
               [empty |-> TRUE, channels |-> 0, cols |-> 0, rows |-> 0,
                gray |-> <<>>, total_green_pixels |-> 0,
                mean_hue |-> RZero, mean_sat |-> RZero]
          [] name = "gray" ->
               \* a single-channel frame
               MkVpFrame(1, 2, 2, <<90, 90, 90, 90>>, 0, RZero, RZero)
          [] name = "leafy" ->
               MkVpFrame(3, 2, 2, <<120, 118, 60, 62>>, 2,
                         RInt(60), RInt(200))
          [] name = "leafy2" ->
               \* the same scene, a moment later
               MkVpFrame(3, 2, 2, <<121, 118, 61, 62>>, 2,
                         RInt(61), RInt(204))
          [] name = "grown" ->
               MkVpFrame(3, 2, 2, <<120, 119, 110, 62>>, 3,
                         RInt(58), RInt(190))
          [] name = "bare" ->
               \* no vegetation
               MkVpFrame(3, 2, 2, <<200, 201, 199, 200>>, 0, RZero, RZero)
          [] name = "wide" ->
               \* another resolution
               MkVpFrame(3, 3, 2, <<120, 118, 119, 60, 62, 61>>, 3,
                         RInt(60), RInt(200)) ]

\* VisionProcessor::Config (the defaults; setters are not modelled)
config_ ==
    [hue_threshold |-> RInt(10),
     saturation_threshold |-> RInt(15),
     green_ratio_threshold |-> Rat(8, 100),
     area_change_threshold |-> Rat(15, 100),
     motion_threshold |-> RInt(500),
     enable_motion_detection |-> TRUE]

\* createPlantMask: cv::cvtColor COLOR_BGR2HSV raises cv::Exception unless
\* the frame has 3 or 4 channels
createPlantMaskRaises(frame) == VpFrames[frame].channels \notin { 3, 4 }

\* analyzeColors: the members detectChanges and the callers read.  Without
\* mask pixel the function returns before mean_hsv is assigned, which
\* leaves the zeros of cv::Scalar's constructor.
analyzeColors(frame) ==
    LET f == VpFrames[frame]
    IN  [total_green_pixels |-> f.total_green_pixels,
         green_ratio |-> RDivInt(RInt(f.total_green_pixels),
                                 f.rows * f.cols),
         mean_hue |-> IF f.total_green_pixels = 0 THEN RZero ELSE f.mean_hue,
         mean_sat |-> IF f.total_green_pixels = 0 THEN RZero ELSE f.mean_sat]

RECURSIVE SumAbsDiff(_, _)
SumAbsDiff(a, b) ==
    IF a = <<>> THEN 0
    ELSE Abs(Head(a) - Head(b)) + SumAbsDiff(Tail(a), Tail(b))

\* calculateMotionMagnitude: cv::sum of cv::absdiff of the gray images;
\* cv::absdiff raises cv::Exception when handed images of two sizes
calculateMotionMagnitude(current, previous) ==
    LET c == VpFrames[current]
        p == VpFrames[previous]
    IN  IF c.cols # p.cols \/ c.rows # p.rows
        THEN [raised |-> TRUE, value |-> RZero]
        ELSE [raised |-> FALSE, value |-> RInt(SumAbsDiff(c.gray, p.gray))]

\* detectChanges(current_frame, previous_frame) with baseline_established_
\* as given; uninit is what the members of "ChangeDetectionResult result;"
\* hold that the taken branch does not assign
detectChanges(current_frame, previous_frame, established, uninit) ==
    LET unassigned ==
            [significant_change |-> FALSE,
             hue_change |-> RInt(uninit.number),
             saturation_change |-> RInt(uninit.number),
             green_ratio_change |-> RInt(uninit.number),
             total_area_change |-> RInt(uninit.number),
             motion_magnitude |-> RInt(uninit.number),
             plant_count_change |-> uninit.number,
             change_reason |-> ""]
        current_colors == analyzeColors(current_frame)
        previous_colors == analyzeColors(previous_frame)
        hue_change == RAbs(RSub(current_colors.mean_hue,
                                previous_colors.mean_hue))
        saturation_change == RAbs(RSub(current_colors.mean_sat,
                                       previous_colors.mean_sat))
        green_ratio_change == RAbs(RSub(current_colors.green_ratio,
                                        previous_colors.green_ratio))
        total_area_change ==
            RDivInt(RInt(Abs(current_colors.total_green_pixels
                             - previous_colors.total_green_pixels)),
                    Max2(1, previous_colors.total_green_pixels))
        motion == calculateMotionMagnitude(current_frame, previous_frame)
        motion_magnitude == motion.value
        hue_significant == RGt(hue_change, config_.hue_threshold)
        sat_significant ==
            RGt(saturation_change, config_.saturation_threshold)
        ratio_significant ==
            RGt(green_ratio_change, config_.green_ratio_threshold)
        area_significant ==
            RGt(total_area_change, config_.area_change_threshold)
        motion_significant ==
            RGt(motion_magnitude, config_.motion_threshold)
        significant == \/ hue_significant \/ sat_significant
                       \/ ratio_significant \/ area_significant
                       \/ motion_significant
    IN  IF \/ VpFrames[current_frame].empty
           \/ VpFrames[previous_frame].empty
           \/ ~established
        THEN [unassigned EXCEPT !.significant_change = TRUE,
                                !.change_reason = "insufficient_data"]
        ELSE IF \/ createPlantMaskRaises(current_frame)
                \/ createPlantMaskRaises(previous_frame)
        THEN [unassigned EXCEPT !.significant_change = TRUE,
                                !.change_reason = "detection_error"]
        ELSE IF motion.raised
        THEN \* the four changes are assigned before cv::absdiff raises
             [unassigned EXCEPT !.significant_change = TRUE,
                                !.hue_change = hue_change,
                                !.saturation_change = saturation_change,
                                !.green_ratio_change = green_ratio_change,
                                !.total_area_change = total_area_change,
                                !.change_reason = "detection_error"]
        ELSE [significant_change |-> significant,
              plant_count_change |-> uninit.number,
              hue_change |-> hue_change,
              saturation_change |-> saturation_change,
              green_ratio_change |-> green_ratio_change,
              total_area_change |-> total_area_change,
              motion_magnitude |-> motion_magnitude,
              change_reason |->
                 IF significant
                 THEN (IF hue_significant THEN "hue_change " ELSE "")
                      \o (IF sat_significant
                          THEN "saturation_change " ELSE "")
                      \o (IF ratio_significant
                          THEN "green_ratio_change " ELSE "")
                      \o (IF area_significant THEN "area_change " ELSE "")
                      \o (IF motion_significant
                          THEN "motion_detected " ELSE "")
                 ELSE "no_significant_change"]

\* what the environment decides for one processBasicMetrics call: the
\* values the members of "BasicMetrics metrics;" and
\* "ChangeDetectionResult result;" without initializer hold, and whether
\* the call took longer than max_processing_time_ms
VpEnvs ==
    [significant_change : BOOLEAN, number : Indeterminate, slow : BOOLEAN]

\* the object's members as a record
VpState(previous, baseline, metrics, established, counter) ==
    [previous_frame_ |-> previous, baseline_frame_ |-> baseline,
     baseline_metrics_ |-> metrics, baseline_established_ |-> established,
     frame_counter_ |-> counter]

\* "BasicMetrics metrics;" after the three assignments at the top of
\* processBasicMetrics
freshMetrics(frame_number, env) ==
    [frame_number |-> frame_number,
     ai_analysis_required |-> FALSE,
     processing_notes |-> "",
     color_analysis |->
        [total_green_pixels |-> env.number,
         green_ratio |-> RInt(env.number),
         mean_hue |-> RZero, mean_sat |-> RZero],
     change_detection |->
        [significant_change |-> env.significant_change,
         plant_count_change |-> env.number,
         hue_change |-> RInt(env.number),
         saturation_change |-> RInt(env.number),
         green_ratio_change |-> RInt(env.number),
         total_area_change |-> RInt(env.number),
         motion_magnitude |-> RInt(env.number),
         change_reason |-> ""]]

\* variant of processBasicMetrics that stores the frame in previous_frame_
\* before the change detection
processBasicMetricsCacheFirst(s, frame, env) ==
    LET counter == s.frame_counter_ + 1
        fresh == freshMetrics(counter, env)
        counted == [s EXCEPT !.frame_counter_ = counter]
        analysed == [fresh EXCEPT !.color_analysis = analyzeColors(frame)]
        detected ==
            [analysed EXCEPT !.change_detection =
                detectChanges(frame, frame, s.baseline_established_, env)]
        newBaseline == ~s.baseline_established_
        noted == IF newBaseline
                 THEN [detected EXCEPT
                         !.processing_notes = "Baseline established"]
                 ELSE detected
        decided ==
            [noted EXCEPT
               !.ai_analysis_required =
                   \/ detected.change_detection.significant_change
                   \/ counter % 100 = 0,
               !.processing_notes =
                   IF env.slow
                   THEN @ \o " WARNING: Processing time exceeded 100ms"
                   ELSE @]
    IN  IF VpFrames[frame].empty
        THEN [state |-> counted,
              metrics |-> [fresh EXCEPT
                             !.processing_notes = "Empty frame received"],
              path |-> << "return" >>]
        ELSE IF createPlantMaskRaises(frame)
        THEN [state |-> counted,
              metrics |-> [fresh EXCEPT !.processing_notes = "OpenCV error"],
              path |-> << "createPlantMask", "catch", "return" >>]
        ELSE [state |->
                 [counted EXCEPT
                    !.baseline_frame_ = IF newBaseline THEN frame ELSE @,
                    !.baseline_established_ = TRUE,
                    !.baseline_metrics_ =
                        IF newBaseline THEN detected ELSE @,
                    !.previous_frame_ = frame],
              metrics |-> decided,
              path |-> << "createPlantMask", "analyzeColors",
                          "previous_frame_", "detectChanges" >>
                       \o (IF newBaseline
                           THEN << "establishBaseline",
                                   "baseline_metrics_" >>
                           ELSE << >>)
                       \o << "return" >>]

\* processBasicMetrics on the object s: the object afterwards, the
\* BasicMetrics returned, and the steps taken in the order of the code.
\* The text of the caught exception is left out of processing_notes.
processBasicMetrics(s, frame, env) ==
    LET counter == s.frame_counter_ + 1
        fresh == freshMetrics(counter, env)
        counted == [s EXCEPT !.frame_counter_ = counter]
        analysed == [fresh EXCEPT !.color_analysis = analyzeColors(frame)]
        first == VpFrames[s.previous_frame_].empty
        detected ==
            [analysed EXCEPT !.change_detection =
                IF ~first
                THEN detectChanges(frame, s.previous_frame_,
                                   s.baseline_established_, env)
                ELSE [@ EXCEPT !.significant_change = TRUE,
                               !.change_reason = "first_frame"]]
        newBaseline == ~s.baseline_established_
        noted == IF newBaseline
                 THEN [detected EXCEPT
                         !.processing_notes = "Baseline established"]
                 ELSE detected
        decided ==
            [noted EXCEPT
               !.ai_analysis_required =
                   \/ detected.change_detection.significant_change
                   \/ counter % 100 = 0,
               !.processing_notes =
                   IF env.slow
                   THEN @ \o " WARNING: Processing time exceeded 100ms"
                   ELSE @]
    IN  IF VpFrames[frame].empty
        THEN [state |-> counted,
              metrics |-> [fresh EXCEPT
                             !.processing_notes = "Empty frame received"],
              path |-> << "return" >>]
        ELSE IF createPlantMaskRaises(frame)
        THEN [state |-> counted,
              metrics |-> [fresh EXCEPT !.processing_notes = "OpenCV error"],
              path |-> << "createPlantMask", "catch", "return" >>]
        ELSE [state |->
                 [counted EXCEPT
                    !.baseline_frame_ = IF newBaseline THEN frame ELSE @,
                    !.baseline_established_ = TRUE,
                    !.baseline_metrics_ =
                        IF newBaseline THEN detected ELSE @,
                    !.previous_frame_ = frame],
              metrics |-> decided,
              path |-> << "createPlantMask", "analyzeColors",
                          IF first THEN "first_frame" ELSE "detectChanges" >>
                       \o (IF newBaseline
                           THEN << "establishBaseline",
                                   "baseline_metrics_" >>
                           ELSE << >>)
                       \o << "previous_frame_", "return" >>]

\* most processBasicMetrics calls made on one object
MaxFrames == 4

\* the value of the member baseline_metrics_ before a baseline is stored
NoMetrics == [frame_number |-> 0]

InitVision ==
    /\ previous_frame_ = "empty"
    /\ baseline_frame_ = "empty"
    /\ baseline_metrics_ = NoMetrics
    /\ baseline_established_ = FALSE
    /\ frame_counter_ = 0
    /\ vpArg = "none"
    /\ vpRet = NoMetrics
    /\ vpPath = << >>
    /\ vpBefore = VpState("empty", "empty", NoMetrics, FALSE, 0)
    /\ vpLastCompleted = "empty"

\* calls made on the object before the first call of a late run: far
\* enough for the run to pass frame number 100
FramesBefore == 98

\* the object after FramesBefore calls with an empty frame: the members
\* other than frame_counter_ are as constructed
InitVisionLate ==
    /\ previous_frame_ = "empty"
    /\ baseline_frame_ = "empty"
    /\ baseline_metrics_ = NoMetrics
    /\ baseline_established_ = FALSE
    /\ frame_counter_ = FramesBefore
    /\ vpArg = "empty"
    /\ vpRet \in
          { processBasicMetrics(
                VpState("empty", "empty", NoMetrics, FALSE,
                        FramesBefore - 1), "empty", env).metrics :
              env \in VpEnvs }
    /\ vpPath = << "return" >>
    /\ vpBefore = VpState("empty", "empty", NoMetrics, FALSE,
                          FramesBefore - 1)
    /\ vpLastCompleted = "empty"

ProcessBasicMetrics ==
    /\ \/ frame_counter_ < MaxFrames
       \/ /\ frame_counter_ >= FramesBefore
          /\ frame_counter_ < FramesBefore + MaxFrames
    /\ \E frame \in VpFrameNames, env \in VpEnvs :
       \E r \in { processBasicMetrics(
                    VpState(previous_frame_, baseline_frame_,
                            baseline_metrics_, baseline_established_,
                            frame_counter_), frame, env) } :
        /\ previous_frame_' = r.state.previous_frame_
        /\ baseline_frame_' = r.state.baseline_frame_
        /\ baseline_metrics_' = r.state.baseline_metrics_
        /\ baseline_established_' = r.state.baseline_established_
        /\ frame_counter_' = r.state.frame_counter_
        /\ vpArg' = frame
        /\ vpRet' = r.metrics
        /\ vpPath' = r.path
        /\ vpBefore' = VpState(previous_frame_, baseline_frame_,
                               baseline_metrics_, baseline_established_,
                               frame_counter_)
        /\ vpLastCompleted' =
              IF vpPath # << >> /\ "previous_frame_" \in
                    { vpPath[i] : i \in 1..Len(vpPath) }
              THEN vpArg ELSE vpLastCompleted
        /\ UNCHANGED <<cdVars, mqVars, viVars, lfVars, aiVars, mnVars>>

NextVision == ProcessBasicMetrics

\* ------------------------------------------------------------------------
\* VisionProcessor: the AI hand-off (saveAIRequestData, loadAIResults)
\*
\* The directories are functions from request id to the text of the file
\* "<request_id>.json" (ai_requests_dir_, ai_results_dir_) and of the file
\* "ai_analysis_<request_id>.signal" (data_dir_); NoFile: no such file.
\* ------------------------------------------------------------------------
NoFile == "no file"

RequestIds == { "frame_1_17", "frame_2_18" }

\* texts the AI module leaves in a result file: two JSON documents, the
\* document null, and the beginning of a document (a write in progress)
ResultTexts ==
    { "{\"plants\":1}", "{\"plants\":2}", "null", "{\"plants\":" }

\* "file >> result": the JSON value of a text, or the parse error
\* nlohmann::json raises
parse(text) ==
    CASE text = "{\"plants\":1}" -> [ok |-> TRUE, value |-> [plants |-> 1]]
      [] text = "{\"plants\":2}" -> [ok |-> TRUE, value |-> [plants |-> 2]]
      [] text = "null" -> [ok |-> TRUE, value |-> [null |-> TRUE]]
      [] OTHER -> [ok |-> FALSE, value |-> [null |-> TRUE]]

\* json(): the null value
json == [null |-> TRUE]

\* request_json.dump(2) of the request saved under request_id
request_json(request_id) == "{\"request_id\":\"" \o request_id \o "\"}"

\* the files of the three directories as a record
AiFiles(requests, signals, results) ==
    [requests |-> requests, signals |-> signals, results |-> results]

\* saveAIRequestData: [return value, files]; opens / opensSignal: whether
\* the std::ofstream of the request file / of the signal file opens (a
\* stream that did not open drops what is written to it)
saveAIRequestData(fs, request_id, opens, opensSignal) ==
    [ret |-> TRUE,
     fs |-> [fs EXCEPT
               !.requests[request_id] =
                   IF opens THEN request_json(request_id) ELSE @,
               !.signals[request_id] =
                   IF opensSignal THEN request_id \o "\n" ELSE @]]

\* variant of loadAIResults that leaves the result file in place
loadAIResultsKeepResult(fs, request_id) ==
    IF fs.results[request_id] = NoFile THEN [ret |-> json, fs |-> fs]
    ELSE IF ~parse(fs.results[request_id]).ok
    THEN [ret |-> json, fs |-> fs]
    ELSE [ret |-> parse(fs.results[request_id]).value,
          fs |-> [fs EXCEPT !.requests[request_id] = NoFile]]

\* loadAIResults: [return value, files]
loadAIResults(fs, request_id) ==
    IF fs.results[request_id] = NoFile THEN [ret |-> json, fs |-> fs]
    ELSE IF ~parse(fs.results[request_id]).ok
    THEN \* the parse error is caught before the files are removed
         [ret |-> json, fs |-> fs]
    ELSE [ret |-> parse(fs.results[request_id]).value,
          fs |-> [fs EXCEPT !.results[request_id] = NoFile,
                            !.requests[request_id] = NoFile]]

\* most loadAIResults calls that read one written result
MaxReads == 2

InitAI ==
    /\ aiRequests = [id \in RequestIds |-> NoFile]
    /\ aiSignals = [id \in RequestIds |-> NoFile]
    /\ aiResults = [id \in RequestIds |-> NoFile]
    /\ aiOp = "none"
    /\ aiArg = "none"
    /\ aiRet = json
    /\ aiBefore = AiFiles([id \in RequestIds |-> NoFile],
                          [id \in RequestIds |-> NoFile],
                          [id \in RequestIds |-> NoFile])
    /\ aiReads = [id \in RequestIds |-> 0]

SaveAIRequestData ==
    \E request_id \in RequestIds, opens \in BOOLEAN, opensSignal \in BOOLEAN :
    \E r \in { saveAIRequestData(AiFiles(aiRequests, aiSignals, aiResults),
                                 request_id, opens, opensSignal) } :
        /\ aiRequests' = r.fs.requests
        /\ aiSignals' = r.fs.signals
        /\ aiResults' = r.fs.results
        /\ aiOp' = "saveAIRequestData"
        /\ aiArg' = request_id
        /\ aiRet' = json
        /\ aiBefore' = AiFiles(aiRequests, aiSignals, aiResults)
        /\ UNCHANGED <<aiReads, cdVars, mqVars, viVars, lfVars, vpVars,
                       mnVars>>

LoadAIResults ==
    \E request_id \in RequestIds :
    \E r \in { loadAIResults(AiFiles(aiRequests, aiSignals, aiResults),
                             request_id) } :
        /\ aiReads[request_id] < MaxReads
        /\ aiRequests' = r.fs.requests
        /\ aiSignals' = r.fs.signals
        /\ aiResults' = r.fs.results
        /\ aiOp' = "loadAIResults"
        /\ aiArg' = request_id
        /\ aiRet' = r.ret
        /\ aiBefore' = AiFiles(aiRequests, aiSignals, aiResults)
        /\ aiReads' =
              [aiReads EXCEPT ![request_id] =
                  IF /\ aiResults[request_id] # NoFile
                     /\ parse(aiResults[request_id]).ok
                  THEN @ + 1 ELSE @]
        /\ UNCHANGED <<cdVars, mqVars, viVars, lfVars, vpVars, mnVars>>

\* the AI module writes (or goes on writing) the result file of a request
WriteResult ==
    \E request_id \in RequestIds, text \in ResultTexts :
        /\ aiResults' = [aiResults EXCEPT ![request_id] = text]
        /\ aiReads' = [aiReads EXCEPT ![request_id] = 0]
        /\ aiOp' = "write result"
        /\ aiArg' = request_id
        /\ aiRet' = json
        /\ aiBefore' = AiFiles(aiRequests, aiSignals, aiResults)
        /\ UNCHANGED <<aiRequests, aiSignals, cdVars, mqVars, viVars,
                       lfVars, vpVars, mnVars>>

NextAI ==
    \/ SaveAIRequestData
    \/ LoadAIResults
    \/ WriteResult

\* ------------------------------------------------------------------------
\* The orchestrator loop (main.cpp, runLegacyMode)
\* ------------------------------------------------------------------------
\* size_t values (64 bits) as four 16-bit limbs, least significant first
size_t(n) == << n % 65536, (n \div 65536) % 65536, 0, 0 >>

\* a - b in size_t arithmetic (modulo 2^64)
size_sub(a, b) ==
    LET d1 == a[1] - b[1]
        d2 == a[2] - b[2] - (IF d1 < 0 THEN 1 ELSE 0)
        d3 == a[3] - b[3] - (IF d2 < 0 THEN 1 ELSE 0)
        d4 == a[4] - b[4] - (IF d3 < 0 THEN 1 ELSE 0)
    IN  << d1 % 65536, d2 % 65536, d3 % 65536, d4 % 65536 >>

size_gt(a, b) ==
    \E k \in 1..4 :
        a[k] > b[k] /\ \A j \in (k + 1)..4 : a[j] = b[j]

\* std::string::max_size(), 2^62 - 1
string_max_size == << 65535, 65535, 65535, 16383 >>

\* std::to_string of a non-negative index: the decimal digits as bytes
RECURSIVE to_string(_)
to_string(i) ==
    IF i < 10 THEN << 48 + i >>
    ELSE Append(to_string(i \div 10), 48 + (i % 10))

\* std::string(count, ch): the string, or std::length_error when count
\* exceeds max_size()
string_fill(count, ch) ==
    IF size_gt(count, string_max_size)
    THEN [raised |-> TRUE, value |-> << >>]
    ELSE [raised |-> FALSE,
          value |-> [k \in 1..(count[1] + 65536 * count[2]) |-> ch]]

\* "instanceId = std::to_string(i);
\*  instanceId = std::string(3 - instanceId.length(), '0') + instanceId;"
instanceId(i) ==
    LET padding == string_fill(size_sub(size_t(3), size_t(Len(to_string(i)))),
                               48)
    IN  [raised |-> padding.raised,
         value |-> padding.value \o to_string(i)]

\* the largest index of the longest instance list a tick is handed but
\* one
MaxIndex == 1000

\* analysisResult.instances.size() of a tick
InstanceCounts == { 0, 1, 11, 101, MaxIndex, MaxIndex + 1 }

\* how the instances of a tick are typed: all SPROUT, all PLANT, or by turns
InstanceKinds == { "sprouts", "plants", "mixed" }

\* instance.type of instance i of a list of the kind
instanceType(kind, i) ==
    CASE kind = "sprouts" -> "SPROUT"
      [] kind = "plants" -> "PLANT"
      [] OTHER -> IF i % 2 = 0 THEN "SPROUT" ELSE "PLANT"

\* how the analyzePlants call of a tick ends: with a result, or with the
\* cv::Exception it lets through
TickResults ==
    [outcome : { "returned" }, count : InstanceCounts, kind : InstanceKinds]
    \cup { [outcome |-> "cv::Exception", count |-> 0, kind |-> "sprouts"] }

NoResult == [outcome |-> "none", count |-> 0, kind |-> "sprouts"]

\* the topics main() hands to runLegacyMode: MQTT_TOPIC or the default
\* built from the configuration ("t" stands for it), and the empty topic
MainTopics == { << >>, << 116 >> }

\* "/sprouts/" and "/plants/", "/telemetry"
SproutsPath == << 47, 115, 112, 114, 111, 117, 116, 115, 47 >>
PlantsPath == << 47, 112, 108, 97, 110, 116, 115, 47 >>
TelemetryPath == << 47, 116, 101, 108, 101, 109, 101, 116, 114, 121 >>

\* the per-instance topic of instance i
instanceTopic(topic, type, i) ==
    topic \o (IF type = "SPROUT" THEN SproutsPath ELSE PlantsPath)
          \o to_string(i) \o TelemetryPath

\* runLegacyMode at its first pass of the loop, called with topic
InitMainAt(topic) ==
    /\ mnTopic = topic
    /\ mnPc = "capture"
    /\ mnResult = NoResult
    /\ mnI = 0
    /\ mnInstanceId = << >>
    /\ mnCalls = << >>
    /\ mnPublished = 0
    /\ mnLastTopic = << >>
    /\ mnError = "none"

InitMain == \E topic \in MainTopics : InitMainAt(topic)

\* the tick up to the creation of the output directories: the frame is
\* captured, analyzePlants is called, the annotated frame is saved and the
\* payloads are built
Analyze ==
    /\ mnPc = "capture"
    /\ \E result \in TickResults :
        /\ mnResult' = result
        /\ mnCalls' = << "analyzePlants" >>
        /\ IF result.outcome = "returned"
           THEN mnPc' = "instances" /\ mnError' = "none"
           ELSE mnPc' = "terminated" /\ mnError' = result.outcome
    /\ mnI' = 0
    /\ mnInstanceId' = << >>
    /\ mnPublished' = 0
    /\ mnLastTopic' = << >>
    /\ UNCHANGED <<mnTopic, cdVars, mqVars, viVars, lfVars, vpVars, aiVars>>

\* one pass of the loop that saves and publishes the instances
PublishInstance ==
    /\ mnPc = "instances"
    /\ mnI < mnResult.count
    /\ \E id \in { instanceId(mnI) } :
        IF id.raised
        THEN /\ mnPc' = "terminated"
             /\ mnError' = "std::length_error"
             /\ UNCHANGED <<mnI, mnInstanceId, mnCalls, mnPublished,
                            mnLastTopic>>
        ELSE /\ mnInstanceId' = id.value
             /\ mnI' = mnI + 1
             /\ IF mnTopic # << >>
                THEN /\ mnPublished' = mnPublished + 1
                     /\ mnLastTopic' =
                           instanceTopic(mnTopic,
                               instanceType(mnResult.kind, mnI), mnI)
                     /\ mnCalls' =
                           IF mnPublished = 0
                           THEN Append(mnCalls, "client.publish (instance)")
                           ELSE mnCalls
                ELSE UNCHANGED <<mnPublished, mnLastTopic, mnCalls>>
             /\ UNCHANGED <<mnPc, mnError>>
    /\ UNCHANGED <<mnTopic, mnResult, cdVars, mqVars, viVars, lfVars,
                   vpVars, aiVars>>

\* "client.publish(topic, payload.dump());" after the loop
PublishAggregate ==
    /\ mnPc = "instances"
    /\ mnI = mnResult.count
    /\ mnCalls' = Append(mnCalls, "client.publish")
    /\ mnLastTopic' = mnTopic
    /\ mnPc' = "sleep"
    /\ UNCHANGED <<mnTopic, mnResult, mnI, mnInstanceId, mnPublished,
                   mnError, cdVars, mqVars, viVars, lfVars, vpVars, aiVars>>

\* std::this_thread::sleep_for and the next pass of while (true)
Sleep ==
    /\ mnPc = "sleep"
    /\ mnPc' = "capture"
    /\ mnResult' = NoResult
    /\ mnI' = 0
    /\ mnInstanceId' = << >>
    /\ mnCalls' = << >>
    /\ mnPublished' = 0
    /\ mnLastTopic' = << >>
    /\ UNCHANGED <<mnTopic, mnError, cdVars, mqVars, viVars, lfVars, vpVars,
                   aiVars>>

NextMain ==
    \/ Analyze
    \/ PublishInstance
    \/ PublishAggregate
    \/ Sleep

\* ------------------------------------------------------------------------
\* Specifications
\* ------------------------------------------------------------------------
vars == <<cdVars, mqVars, viVars, lfVars, vpVars, aiVars, mnVars>>

\* the hand-off directories empty and the loop about to start with the
\* configured topic
InitRest == InitAI /\ InitMainAt(<< 116 >>)

Init ==
    InitCD /\ InitMqtt /\ InitVarintIdle /\ InitLeaf /\ InitVision
      /\ InitRest

NextCD ==
    \/ AnalyzeFrame
    \/ UpdateBaseline
    \/ Reset
    \/ WriteChangeSignal

\* the ChangeDetector under every sequence of calls
SpecCD == Init /\ [][NextCD]_vars

\* one MqttClient under every sequence of calls and every environment
SpecMqtt == Init /\ [][NextMqtt]_vars

\* encode_varint applied to each of the inputs
InitVarint ==
    /\ InitCD
    /\ InitMqtt
    /\ varintIn \in VarintInputs
    /\ varintOut = <<>>
    /\ varintDone = FALSE
    /\ InitLeaf
    /\ InitVision
    /\ InitRest

SpecVarint == InitVarint /\ [][NextVarint]_vars

\* the plant analysis functions applied to each of the inputs
InitLeafSpec ==
    /\ InitCD
    /\ InitMqtt
    /\ InitVarintIdle
    /\ InitLeafCall
    /\ InitVision
    /\ InitRest

SpecLeaf == InitLeafSpec /\ [][NextLeaf]_vars

\* one VisionProcessor under every sequence of frames
SpecVision == Init /\ [][NextVision]_vars

\* the VisionProcessor from its 99th call on
InitVisionLateSpec ==
    /\ InitCD
    /\ InitMqtt
    /\ InitVarintIdle
    /\ InitLeaf
    /\ InitVisionLate
    /\ InitRest

SpecVisionLate == InitVisionLateSpec /\ [][NextVision]_vars

\* the AI hand-off under every sequence of calls and writes
SpecAI == Init /\ [][NextAI]_vars

\* the orchestrator loop with each topic and every analysis result
InitMainSpec ==
    /\ InitCD
    /\ InitMqtt
    /\ InitVarintIdle
    /\ InitLeaf
    /\ InitVision
    /\ InitAI
    /\ InitMain

SpecMain == InitMainSpec /\ [][NextMain]_vars

Next ==
    NextCD \/ NextMqtt \/ NextVarint \/ NextLeaf \/ NextVision \/ NextAI
      \/ NextMain

Spec == Init /\ [][Next]_vars

\* ------------------------------------------------------------------------
\* Properties of the ChangeDetector
\* ------------------------------------------------------------------------
\* r > p/q, for a rational r and integers p, q > 0
ExceedsFraction(r, p, q) == r.n * q > p * r.d

AllDeltasZero(m) ==
    /\ m.totalAreaChange.n = 0
    /\ m.plantCountChange = 0
    /\ m.avgColorChangeH.n = 0
    /\ m.avgColorChangeS.n = 0
    /\ m.avgColorChangeV.n = 0
    /\ m.morphologyChange.n = 0

\* C1: an analyzeFrame call entered without a baseline returns
\* significantChange = false and all six deltas 0, for every instance list
\* (the empty one included), and leaves hasBaseline() true.
C1_BootstrapReportsNoChange ==
    (cdOp = "analyzeFrame" /\ ~cdWasValid) =>
        /\ cdRet.significantChange = FALSE
        /\ AllDeltasZero(cdRet)
        /\ hasBaseline(baseline_)

\* C1 witness: the bootstrap call was made with the empty instance list.
C1_Witness ==
    /\ cdOp = "analyzeFrame"
    /\ ~cdWasValid
    /\ cdArg = <<>>
    /\ hasBaseline(baseline_)

\* C2 (as claimed): the analyzeFrame call that follows the bootstrap call,
\* with the same instance list, returns significantChange = false and all
\* six deltas 0.
C2_RepeatReportsNoChange ==
    cdRepeat => (cdRet.significantChange = FALSE /\ AllDeltasZero(cdRet))

\* C3: for every analyzeFrame call made with a baseline, significantChange
\* is true exactly when area change > 0.10, or count change >= 1, or
\* dH > 8, or dS > 12, or dV > 15, or morphology change > 0.08; the returned
\* metrics carry every delta.
C3_SignificanceIsOrOfThresholds ==
    (cdOp = "analyzeFrame" /\ cdWasValid) =>
        /\ DOMAIN cdRet = {"totalAreaChange", "plantCountChange",
                           "avgColorChangeH", "avgColorChangeS",
                           "avgColorChangeV", "morphologyChange",
                           "significantChange"}
        /\ cdRet.significantChange <=>
             \/ ExceedsFraction(cdRet.totalAreaChange, 10, 100)
             \/ cdRet.plantCountChange >= 1
             \/ ExceedsFraction(cdRet.avgColorChangeH, 8, 1)
             \/ ExceedsFraction(cdRet.avgColorChangeS, 12, 1)
             \/ ExceedsFraction(cdRet.avgColorChangeV, 15, 1)
             \/ ExceedsFraction(cdRet.morphologyChange, 8, 100)

\* C3 witness: a comparison that is significant because of the hue alone.
C3_Witness ==
    /\ cdOp = "analyzeFrame"
    /\ cdWasValid
    /\ cdRet.significantChange
    /\ ExceedsFraction(cdRet.avgColorChangeH, 8, 1)
    /\ ~ExceedsFraction(cdRet.totalAreaChange, 10, 100)
    /\ cdRet.plantCountChange = 0
    /\ ~ExceedsFraction(cdRet.avgColorChangeS, 12, 1)
    /\ ~ExceedsFraction(cdRet.avgColorChangeV, 15, 1)
    /\ ~ExceedsFraction(cdRet.morphologyChange, 8, 100)

\* C4: hasBaseline() is true exactly when analyzeFrame or updateBaseline was
\* called since construction or the last reset; reset leaves no baseline;
\* updateBaseline leaves a baseline for every list, so the analyzeFrame call
\* that follows it compares and keeps that baseline.
C4_TwoStateMachine ==
    /\ [](hasBaseline(baseline_) <=> cdTouched)
    /\ [](cdOp = "reset" => ~hasBaseline(baseline_))
    /\ [](cdOp = "updateBaseline" => hasBaseline(baseline_))
    /\ [][(cdOp = "updateBaseline" /\ cdOp' = "analyzeFrame")
            => (cdWasValid' /\ baseline_' = baseline_)]_vars

\* C4 witness: updateBaseline was called with the empty list.
C4_Witness ==
    /\ cdOp = "updateBaseline"
    /\ cdArg = <<>>
    /\ hasBaseline(baseline_)

\* C5: an analyzeFrame call made with a baseline, and every
\* writeChangeSignal call, leave every field of baseline_ unchanged.
C5_BaselineFrame ==
    [][(\/ (cdOp' = "analyzeFrame" /\ hasBaseline(baseline_))
        \/ cdOp' = "writeChangeSignal")
         => baseline_' = baseline_]_vars

\* C5 witness: a comparison reported a change of the instance count and the
\* baseline still holds the old count.
C5_Witness ==
    /\ cdOp = "analyzeFrame"
    /\ cdWasValid
    /\ cdRet.plantCountChange >= 1
    /\ baseline_.plantCount # Len(cdArg)

\* ------------------------------------------------------------------------
\* Properties of the MqttClient
\* ------------------------------------------------------------------------
\* the bytes the socket accepted in the first k system calls of the log
RECURSIVE AcceptedBytes(_, _)
AcceptedBytes(log, k) ==
    IF k = 0 THEN <<>>
    ELSE AcceptedBytes(log, k - 1)
           \o (IF log[k].op = "send" /\ log[k].n > 0
               THEN SubSeq(log[k].buf, 1, log[k].n)
               ELSE <<>>)

\* MQTT remaining-length decoding: 7 bits per byte, low group first
RECURSIVE DecodeVarint(_)
DecodeVarint(bytes) ==
    IF bytes = <<>> THEN 0
    ELSE (Head(bytes) % 128) + 128 * DecodeVarint(Tail(bytes))

\* bytes is the remaining-length encoding of v
IsVarintOf(bytes, v) ==
    /\ Len(bytes) >= 1
    /\ \A i \in 1..(Len(bytes) - 1) : bytes[i] >= 128 /\ bytes[i] <= 255
    /\ bytes[Len(bytes)] >= 0 /\ bytes[Len(bytes)] < 128
    /\ Len(bytes) > 1 => bytes[Len(bytes)] # 0
    /\ DecodeVarint(bytes) = v

\* the CONNECT packet of MQTT 3.1.1 for client id "plantvision-client",
\* clean session, keep-alive 60
ExpectedConnect ==
    << 16, 30, 0, 4, 77, 81, 84, 84, 4, 2, 0, 60, 0, 18,
       112, 108, 97, 110, 116, 118, 105, 115, 105, 111, 110, 45,
       99, 108, 105, 101, 110, 116 >>

\* C6: publish on a session on which no connect call has succeeded, or
\* that disconnect closed, returns false and makes no system call, for every
\* topic, payload, qos and retain.
C6_PublishOnClosedSession ==
    (mqOp = "publish" /\ mqSession \in {"never", "closed"}) =>
        (mqRet = FALSE /\ ioLog = <<>>)

\* C6 witness: publish with qos 1 and retain on a session closed by
\* disconnect.
C6_Witness ==
    /\ mqOp = "publish"
    /\ mqSession = "closed"
    /\ mqArgs.qos = 1
    /\ mqArgs.retain
    /\ mqArgs.payload # <<>>

\* C7 (as claimed): whenever connect returns false the session holds no
\* open socket afterwards, whatever the session was before the call.
C7_FailedConnectLeavesNoSocket ==
    (mqOp = "connect" /\ mqRet = FALSE) => sock_ = -1

\* C8: connect returns true exactly when a TCP stream was opened, the whole
\* CONNECT packet was written and recv delivered at least 4 bytes with
\* byte0 = 0x20, byte1 >= 2 and byte3 = 0; recv is called only after the
\* whole CONNECT packet was accepted by the socket.
C8_ConnectResult ==
    mqOp = "connect" =>
        LET all == AcceptedBytes(ioLog, Len(ioLog))
            opened == \E i \in 1..Len(ioLog) :
                          ioLog[i].op = "connect" /\ ioLog[i].ok
            written == /\ Len(all) >= Len(ExpectedConnect)
                       /\ SubSeq(all, 1, Len(ExpectedConnect))
                              = ExpectedConnect
            connack == \E j \in 1..Len(ioLog) :
                          /\ ioLog[j].op = "recv"
                          /\ ioLog[j].n >= 4
                          /\ ioLog[j].data[1] = 32
                          /\ ioLog[j].data[2] >= 2
                          /\ ioLog[j].data[4] = 0
        IN  /\ mqRet \in BOOLEAN
            /\ mqRet <=> (opened /\ written /\ connack)
            /\ \A j \in 1..Len(ioLog) :
                  ioLog[j].op = "recv" =>
                      AcceptedBytes(ioLog, j - 1) = ExpectedConnect

\* C8 witness: connect returned true after the CONNECT packet went out in
\* more than one send call.
C8_Witness ==
    /\ mqOp = "connect"
    /\ mqRet = TRUE
    /\ \E i \in 1..Len(ioLog) :
          /\ ioLog[i].op = "send"
          /\ ioLog[i].n < Len(ioLog[i].buf)

\* C9: on an open session the buffer publish hands to the socket is the
\* header byte 0x30 (0x31 with retain), the varint of 2 + |topic| +
\* |payload|, the topic length as two bytes (high byte first), the topic
\* and the payload, and nothing else; qos has no part in it.  Every send
\* call offers what is left of that buffer, and publish returns true exactly
\* when the socket accepted all of it.
C9_PublishBytes ==
    (mqOp = "publish" /\ mqSockBefore # -1) =>
        LET t == mqArgs.topic
            p == mqArgs.payload
            packet == ioLog[1].buf
            all == AcceptedBytes(ioLog, Len(ioLog))
        IN  /\ Len(ioLog) >= 1
            /\ \A i \in 1..Len(ioLog) :
                  /\ ioLog[i].op = "send"
                  /\ ioLog[i].fd = mqSockBefore
                  /\ AcceptedBytes(ioLog, i - 1) \o ioLog[i].buf = packet
            /\ \E k \in 1..4 :
                  /\ Len(packet) = 1 + k + 2 + Len(t) + Len(p)
                  /\ packet[1] = (IF mqArgs.retain THEN 49 ELSE 48)
                  /\ IsVarintOf(SubSeq(packet, 2, 1 + k),
                                2 + Len(t) + Len(p))
                  /\ packet[2 + k] = Len(t) \div 256
                  /\ packet[3 + k] = Len(t) % 256
                  /\ SubSeq(packet, 4 + k, 3 + k + Len(t)) = t
                  /\ SubSeq(packet, 4 + k + Len(t), Len(packet)) = p
            /\ mqRet <=> (all = packet)

\* C9 witness: a publish with qos 2, retain and a topic of more than 255
\* bytes went out whole.
C9_Witness ==
    /\ mqOp = "publish"
    /\ mqSockBefore # -1
    /\ mqRet = TRUE
    /\ mqArgs.qos = 2
    /\ mqArgs.retain
    /\ Len(mqArgs.topic) > 255
    /\ mqArgs.payload # <<>>

\* the system calls of one call are write attempts of data on fd, each
\* offering what the earlier ones left, followed by one close of fd
IsWriteThenClose(log, fd, data) ==
    /\ Len(log) >= 2
    /\ log[Len(log)] = [op |-> "close", fd |-> fd]
    /\ \A i \in 1..(Len(log) - 1) :
          /\ log[i].op = "send"
          /\ log[i].fd = fd
          /\ AcceptedBytes(log, i - 1) \o log[i].buf = data

\* C11: disconnect (the destructor's included) on an open session offers
\* the bytes 0xE0 0x00 to the socket and then closes the socket whether or
\* not the write succeeded, leaving the session closed; on a session with
\* no socket it makes no system call and changes nothing, so a second
\* disconnect is a no-op.
C11_DisconnectClosesAlways ==
    (mqOp \in {"disconnect", "~MqttClient"}) =>
        IF mqSockBefore # -1
        THEN /\ IsWriteThenClose(ioLog, mqSockBefore, <<224, 0>>)
             /\ sock_ = -1
             /\ mqSockBefore \notin openFds
        ELSE /\ ioLog = <<>>
             /\ sock_ = -1

\* C11 witness: disconnect on an open session whose DISCONNECT write was
\* refused by the socket; the socket was closed all the same.
C11_Witness ==
    /\ mqOp = "disconnect"
    /\ mqSockBefore # -1
    /\ Len(ioLog) = 2
    /\ ioLog[1].op = "send"
    /\ ioLog[1].n <= 0
    /\ ioLog[2].op = "close"
    /\ sock_ = -1

\* C12: publish returns false whenever a write of its packet fails and
\* true only when the socket accepted the whole packet; its only system
\* calls are sends on the session's socket, each offering the bytes not yet
\* accepted (nothing is sent twice), none after a failed one (nothing is
\* kept for later); it opens no connection and leaves sock_, the open
\* descriptors and the open/closed state of the session as they were.
C12_PublishIsOneShot ==
    /\ [](mqOp = "publish" =>
            /\ mqRet \in BOOLEAN
            /\ sock_ = mqSockBefore
            /\ \A i \in 1..Len(ioLog) :
                  /\ ioLog[i].op = "send"
                  /\ ioLog[i].fd = mqSockBefore
                  /\ AcceptedBytes(ioLog, i - 1) \o ioLog[i].buf
                        = ioLog[1].buf
                  /\ ioLog[i].n <= 0 => (i = Len(ioLog) /\ mqRet = FALSE)
            /\ mqRet = TRUE =>
                  /\ Len(ioLog) >= 1
                  /\ AcceptedBytes(ioLog, Len(ioLog)) = ioLog[1].buf)
    /\ [][mqOp' = "publish" =>
            /\ sock_' = sock_
            /\ openFds' = openFds
            /\ mqSession' = mqSession]_vars

\* C12 witness: a publish on an open session whose packet was accepted in
\* part before a send failed; it returned false and the session is still
\* open.
C12_Witness ==
    /\ mqOp = "publish"
    /\ mqRet = FALSE
    /\ Len(ioLog) = 2
    /\ ioLog[1].n > 0
    /\ ioLog[2].n <= 0
    /\ sock_ # -1
    /\ sock_ \in openFds
    /\ mqSession = "connected"

\* ------------------------------------------------------------------------
\* Properties of encode_varint
\* ------------------------------------------------------------------------
\* C10: encode_varint(v) is the remaining-length encoding of v (7 value
\* bits per byte, low group first, bit 0x80 on every byte but the last,
\* decoding gives v back); 127, 128, 16383 and 16384 encode as {0x7F},
\* {0x80,0x01}, {0xFF,0x7F} and {0x80,0x80,0x01}; every v <= 268435455
\* takes at most 4 bytes.
C10_VarintEncoding ==
    varintDone =>
        /\ IsVarintOf(varintOut, varintIn)
        /\ varintIn = 127 => varintOut = <<127>>
        /\ varintIn = 128 => varintOut = <<128, 1>>
        /\ varintIn = 16383 => varintOut = <<255, 127>>
        /\ varintIn = 16384 => varintOut = <<128, 128, 1>>
        /\ varintIn <= 268435455 => Len(varintOut) <= 4

\* C10 witness: 268435455 was encoded, in 4 bytes.
C10_Witness ==
    /\ varintDone
    /\ varintIn = 268435455
    /\ varintOut = <<255, 255, 255, 127>>

\* ------------------------------------------------------------------------
\* Properties of the plant analysis
\* ------------------------------------------------------------------------
\* C13 (as claimed): classifyPlantType returns SPROUT whenever
\* areaPixels < 2500, whatever the scale and the crop; and returns PLANT
\* whenever areaPixels >= 4000, scale > 0 and bbox height / scale >= 5.0,
\* whatever the crop.
C13_ClassifyBySizeAndHeight ==
    (lfOp = "classifyPlantType" /\ lfDone) =>
        /\ RLt(lfArgs.areaPixels, RInt(2500)) => lfRet = "SPROUT"
        /\ ( /\ RGe(lfArgs.areaPixels, RInt(4000))
             /\ RGt(lfArgs.scalePxPerCm, RZero)
             /\ RGe(RDiv(RInt(lfArgs.bbox.height), lfArgs.scalePxPerCm),
                    RInt(5)) )
           => lfRet = "PLANT"

\* the number of root-zone connection points of a crop the decision table
\* speaks of: 0 for a crop without foreground contour; the set of both
\* answers to "is it <= 3" where the skeleton is not defined
FewConnections(roi, bbox) ==
    IF Rois[roi].contour.points = 0 THEN { TRUE }
    ELSE LET sk == skeletonize(Rois[roi].binary)
         IN  IF ~sk.returns THEN { TRUE, FALSE }
             ELSE { countOriginConnections(sk.skeleton, bbox,
                        Rois[roi].binary.cols, Rois[roi].binary.rows) <= 3 }

\* the types the first-match-wins decision table allows for an input
DecisionTable(roi, bbox, areaPixels, scalePxPerCm) ==
    LET contour == Rois[roi].contour
    IN  IF RLt(areaPixels, RInt(2500)) THEN { "SPROUT" }
        ELSE IF /\ RGt(scalePxPerCm, RZero)
                /\ RLt(RDiv(RInt(bbox.height), scalePxPerCm), RInt(5))
        THEN { "SPROUT" }
        ELSE IF /\ contour.points >= 5
                /\ RGt(calculateSolidity(contour), Rat(3, 4))
                /\ aspectRatioBelow3(contour.ellipse)
                /\ RLt(areaPixels, RInt(4000))
        THEN { "SPROUT" }
        ELSE IF ~RLt(areaPixels, RInt(3500)) THEN { "PLANT" }
        ELSE { IF few THEN "SPROUT" ELSE "PLANT" :
                 few \in FewConnections(roi, bbox) }

\* C20 (as claimed): for every input classifyPlantType returns what the
\* first-match-wins decision table gives (area < 2500; height below 5 cm
\* at a known scale; compact and area < 4000; at most 3 root-zone
\* connection points and area < 3500; else PLANT), with the last two rules
\* applied to a crop without foreground contour too.
C20_ClassifyIsDecisionTable ==
    (lfOp = "classifyPlantType" /\ lfDone) =>
        lfRet \in DecisionTable(lfArgs.roi, lfArgs.bbox, lfArgs.areaPixels,
                                lfArgs.scalePxPerCm)

\* C14: every PlantInstance produced by processSprout or processPlant has
\* healthScore in [0, 100], for every mean colour, both types and every
\* number of brown spots and yellow areas; and the averageHealth of every
\* result analyzePlants returns is in [0, 100].
C14_HealthScoreInRange ==
    /\ (lfOp \in { "processSprout", "processPlant" } /\ lfDone) =>
          /\ RGe(lfRet.healthScore, RZero)
          /\ RGe(RInt(100), lfRet.healthScore)
    /\ (lfOp = "analyzePlants" /\ lfDone /\ lfRet.outcome = "returned") =>
          /\ RGe(lfRet.result.averageHealth, RZero)
          /\ RGe(RInt(100), lfRet.result.averageHealth)

\* processPlant on a pure green crop with one brown spot: the score is cut
\* to 100 and then reduced by 5
C14_Witness ==
    /\ lfOp = "processPlant"
    /\ lfDone
    /\ lfArgs.region.meanColor = <<0, 255, 0>>
    /\ lfRet.brownSpotCount = 1
    /\ lfRet.yellowAreaCount = 0
    /\ lfRet.healthScore = RInt(95)

\* C15 (as claimed): analyzePlants on an empty frame raises no error and
\* returns a result with an empty instance list and totalInstanceCount,
\* sproutCount, plantCount, totalAreaPixels, totalAreaCm2 and averageHealth
\* all 0.
C15_EmptyFrameGivesZeroResult ==
    (lfOp = "analyzePlants" /\ lfDone /\ Frames[lfArgs.frame].empty) =>
        /\ lfRet.outcome = "returned"
        /\ lfRet.result.instances = <<>>
        /\ lfRet.result.totalInstanceCount = 0
        /\ lfRet.result.sproutCount = 0
        /\ lfRet.result.plantCount = 0
        /\ lfRet.result.totalAreaPixels = RZero
        /\ lfRet.result.totalAreaCm2 = RZero
        /\ lfRet.result.averageHealth = RZero

\* a non-empty frame of black pixels only: no seed region, no contour of
\* the fallback
AllBlack(frame) ==
    /\ ~frame.empty
    /\ frame.seeds = <<>>
    /\ frame.fallback = <<>>
    /\ frame.bgColor = <<0, 0, 0>>

\* C16 (as claimed): for an all-black non-empty frame analyzePlants returns
\* totalInstanceCount = 0 and averageHealth = 0.
C16_BlackFrameGivesNoInstance ==
    (lfOp = "analyzePlants" /\ lfDone /\ AllBlack(Frames[lfArgs.frame])) =>
        /\ lfRet.outcome = "returned"
        /\ lfRet.result.totalInstanceCount = 0
        /\ lfRet.result.averageHealth = RZero

\* the contours of a frame analyzePlants makes instances of
Processed(frame) ==
    SelectSeq(segment(frame), LAMBDA c : RGt(c.area, RInt(50)))

\* classifyPlantType does not return a type for the contour
ClassifyFails(c, scalePxPerCm) ==
    classifyPlantType(c.roi, c.bbox, c.area, scalePxPerCm)
        \notin { "SPROUT", "PLANT" }

\* C17 (as claimed): when an image-processing error is raised for one
\* instance during analyzePlants, the call still returns; it reports one
\* instance per contour, the failing one with zero-valued colour metrics and
\* every other one as processSprout / processPlant computes it.
C17_InstanceErrorIsContained ==
    ( /\ lfOp = "analyzePlants" /\ lfDone
      /\ ~Frames[lfArgs.frame].empty
      /\ \E k \in 1..Len(Processed(Frames[lfArgs.frame])) :
            ClassifyFails(Processed(Frames[lfArgs.frame])[k],
                          lfArgs.scalePxPerCm) )
    => /\ lfRet.outcome = "returned"
       /\ LET frame == Frames[lfArgs.frame]
              contours == Processed(frame)
              instances == lfRet.result.instances
          IN  /\ Len(instances) = Len(contours)
              /\ \A k \in 1..Len(contours) :
                    IF ClassifyFails(contours[k], lfArgs.scalePxPerCm)
                    THEN instances[k].meanColor = <<0, 0, 0>>
                    ELSE instances[k] \in
                           { processSprout(frame, contours[k],
                                           lfArgs.scalePxPerCm),
                             processPlant(frame, contours[k],
                                          lfArgs.scalePxPerCm) }

RECURSIVE SumField(_, _)
SumField(instances, field) ==
    IF instances = <<>> THEN RZero
    ELSE RAdd(Head(instances)[field], SumField(Tail(instances), field))

\* C19 (as claimed): in every result analyzePlants returns,
\* totalInstanceCount = number of instances = sproutCount + plantCount,
\* sproutCount is the number of SPROUT instances, totalAreaPixels and
\* totalAreaCm2 are the sums over the instances, and every instance has
\* areaPixels > 50.
C19_AggregateAgreesWithInstances ==
    (lfOp = "analyzePlants" /\ lfDone /\ lfRet.outcome = "returned") =>
        LET result == lfRet.result
            instances == result.instances
        IN  /\ result.totalInstanceCount = Len(instances)
            /\ result.totalInstanceCount
                 = result.sproutCount + result.plantCount
            /\ result.sproutCount =
                 Cardinality({ i \in 1..Len(instances) :
                                 instances[i].type = "SPROUT" })
            /\ result.totalAreaPixels = SumField(instances, "areaPixels")
            /\ result.totalAreaCm2 = SumField(instances, "areaCm2")
            /\ \A i \in 1..Len(instances) :
                 RGt(instances[i].areaPixels, RInt(50))

\* ------------------------------------------------------------------------
\* Properties of the VisionProcessor
\* ------------------------------------------------------------------------
\* the steps of the last call
VpSteps == { vpPath[i] : i \in 1..Len(vpPath) }

\* position of the first occurrence of a step in the last call (0: none)
VpStepAt(step) ==
    IF step \in VpSteps
    THEN CHOOSE i \in 1..Len(vpPath) :
            vpPath[i] = step /\ \A j \in 1..(i - 1) : vpPath[j] # step
    ELSE 0

\* C18: a processBasicMetrics call that detects changes compares its frame
\* with the frame of the most recent earlier call that completed processing
\* (and reports "first_frame" when there is none); previous_frame_ and the
\* baseline are written only after the change-detection metrics of the call
\* have been derived; a call that returns early on an empty frame or ends
\* in its exception handler leaves previous_frame_ and the baseline as they
\* were.
C18_ChangeDetectionBeforeCacheUpdate ==
    vpPath # << >> =>
      LET derived == IF "detectChanges" \in VpSteps
                     THEN VpStepAt("detectChanges")
                     ELSE VpStepAt("first_frame")
          completed == "previous_frame_" \in VpSteps
      IN  /\ vpBefore.previous_frame_ = vpLastCompleted
          /\ completed =>
               /\ derived > 0
               /\ IF vpLastCompleted = "empty"
                  THEN vpRet.change_detection.change_reason = "first_frame"
                  ELSE \E env \in VpEnvs :
                         vpRet.change_detection =
                           detectChanges(vpArg, vpLastCompleted,
                                         vpBefore.baseline_established_,
                                         env)
               /\ previous_frame_ = vpArg
          /\ \A step \in { "previous_frame_", "establishBaseline",
                           "baseline_metrics_" } :
               step \in VpSteps => (derived > 0 /\ derived < VpStepAt(step))
          /\ ~completed =>
               /\ (VpFrames[vpArg].empty \/ "catch" \in VpSteps)
               /\ previous_frame_ = vpBefore.previous_frame_
               /\ baseline_frame_ = vpBefore.baseline_frame_
               /\ baseline_metrics_ = vpBefore.baseline_metrics_
               /\ baseline_established_ = vpBefore.baseline_established_

\* the first call did not complete, the second stored "leafy" as baseline
\* and previous frame, the third compares "grown" with it and finds the
\* area changed
C18_Witness ==
    /\ vpArg = "grown"
    /\ vpLastCompleted = "leafy"
    /\ vpRet.frame_number = 3
    /\ baseline_frame_ = "leafy"
    /\ baseline_metrics_.frame_number = 2
    /\ "detectChanges" \in VpSteps
    /\ vpRet.change_detection.significant_change
    /\ vpRet.change_detection.total_area_change = Rat(1, 2)
    /\ previous_frame_ = "grown"
\* the health score as the formula states it: the base score cut to
\* [0, 100], then the sprout transform, then the disease reduction floored
\* at 0
StatedHealthScore(meanColor, type, brown, yellow) ==
    LET greenBias == RSub(RInt(meanColor[2]),
                          RDivInt(RInt(meanColor[3] + meanColor[1]), 2))
        base == RMax(RZero, RMin(RInt(100),
                                 RAdd(RInt(60), RDivInt(greenBias, 2))))
        score == IF type = "SPROUT"
                 THEN RAdd(RMul(base, Rat(9, 10)), RInt(10))
                 ELSE base
    IN  RMax(RZero, RSub(score, RInt(5 * brown + 3 * yellow)))

\* C21 (as claimed): the healthScore of a SPROUT instance with mean colour
\* (B, G, R), b brown spots and y yellow areas is
\* max(0, (0.9 * clamp(60 + (G - (R + B)/2)/2, 0, 100) + 10) - 5b - 3y),
\* the clamp applied before the transform; that of a PLANT instance is
\* max(0, clamp(60 + (G - (R + B)/2)/2, 0, 100) - 5b - 3y).
C21_HealthScoreFormula ==
    (lfOp \in { "processSprout", "processPlant" } /\ lfDone) =>
        lfRet.healthScore =
            StatedHealthScore(lfRet.meanColor, lfRet.type,
                              lfRet.brownSpotCount, lfRet.yellowAreaCount)
\* the mean over the list of 0.3 solidity + 0.3 circularity
\* + 0.2 (1 - eccentricity) + 0.2 compactness, hundredths of the sum of
\* the first k terms being summed exactly
RECURSIVE CompositeSum(_, _)
CompositeSum(instances, k) ==
    IF k = 0 THEN RZero
    ELSE LET x == instances[k]
         IN  RAdd(CompositeSum(instances, k - 1),
                  RDivInt(RAdd(RAdd(RMul(RInt(3), x.solidity),
                                    RMul(RInt(3), x.circularity)),
                               RAdd(RMul(RInt(2),
                                         RSub(ROne, x.eccentricity)),
                                    RMul(RInt(2), x.compactness))), 10))

CompositeScore(instances) ==
    IF instances = <<>> THEN RZero
    ELSE RDivInt(CompositeSum(instances, Len(instances)), Len(instances))

Range(s) == { s[i] : i \in 1..Len(s) }

\* C23 (as claimed): for a mask with n >= 1 seed regions watershedInstances
\* returns exactly n contours, the hulls of the n seed-grown regions: no
\* seed region is missing and the region of the background marker is not
\* among them.
C23_OneContourPerSeed ==
    (lfOp = "watershedInstances" /\ lfDone
       /\ Frames[lfArgs.frame].seeds # <<>>) =>
        /\ Len(lfRet.instances) = Len(Frames[lfArgs.frame].seeds)
        /\ Range(lfRet.instances) = Range(Frames[lfArgs.frame].seeds)
        /\ backgroundRegion(Frames[lfArgs.frame])
              \notin Range(lfRet.instances)
\* the interior pixels of a skeleton that are set and have at most one of
\* their eight neighbours set
Spurs(img) ==
    { p \in (1..(img.cols - 2)) \X (1..(img.rows - 2)) :
        /\ at(img, p[1], p[2]) # 0
        /\ Cardinality({ q \in (p[1] - 1..p[1] + 1) \X (p[2] - 1..p[2] + 1) :
                            q # p /\ at(img, q[1], q[2]) # 0 }) <= 1 }

\* img with the pixels of Spurs(img) cleared
WithoutSpurs(img) ==
    [img EXCEPT !.px =
        [i \in 1..(img.cols * img.rows) |->
            IF <<(i - 1) % img.cols, (i - 1) \div img.cols>> \in Spurs(img)
            THEN 0 ELSE img.px[i]]]

\* C24 (as claimed): MorphologyAnalyzer::skeletonize returns for every
\* mask; the body of the thinning loop runs no more than 100 times, and
\* fewer only when the eroded image is empty; the skeleton returned is the
\* thinned skeleton after exactly 2 pruning rounds, each clearing exactly
\* the interior pixels with at most one neighbour at the start of the round.
C24_ThinningCappedAndPruned ==
    (lfOp = "skeletonize" /\ lfDone /\ ~lfRet.empty) =>
        /\ lfRet.iterations <= 100
        /\ lfRet.skeleton.px = WithoutSpurs(WithoutSpurs(lfRet.thinned)).px
C28_NoSocketLeak ==
    (mqSession = "destroyed") => openFds = {}
\* C29 (as claimed): every processBasicMetrics call, with an empty frame
\* or not, returns the frame number of the call before plus 1; when that
\* number is a multiple of 100 ai_analysis_required is true, and otherwise
\* it is true exactly when the returned change detection reports a
\* significant change.
C29_FrameNumbersAndPeriodicAI ==
    (vpArg # "none") =>
        /\ vpRet.frame_number = vpBefore.frame_counter_ + 1
        /\ frame_counter_ = vpRet.frame_number
        /\ IF vpRet.frame_number % 100 = 0
           THEN vpRet.ai_analysis_required
           ELSE vpRet.ai_analysis_required
                   <=> vpRet.change_detection.significant_change
\* C25 (as claimed): in every tick ChangeDetector::analyzeFrame is applied,
\* after the analysis of the frame, before any telemetry of the tick is
\* published.
C25_ChangeDetectionBeforePublish ==
    \A k \in 1..Len(mnCalls) :
        (mnCalls[k] \in { "client.publish (instance)", "client.publish" }) =>
            \E j \in 1..(k - 1) :
                /\ mnCalls[j] = "ChangeDetector::analyzeFrame"
                /\ \E h \in 1..(j - 1) : mnCalls[h] = "analyzePlants"

\* a text that is a complete JSON document
IsDocument(text) == text \in { "{\"plants\":1}", "{\"plants\":2}", "null" }

RECURSIVE Digits(_)
Digits(i) == IF i < 10 THEN << 48 + i >>
             ELSE Digits(i \div 10) \o << 48 + (i % 10) >>

Padded3(i) ==
    [k \in 1..(IF Len(Digits(i)) < 3 THEN 3 - Len(Digits(i)) ELSE 0) |-> 48]
       \o Digits(i)

\* C30 (as claimed): for every index i of a tick the instance id is computed
\* without an error, as the decimal index padded with '0' to width 3, and
\* the tick goes on to its publish calls.
C30_InstanceIdPadded ==
    /\ mnError # "std::length_error"
    /\ (mnPc = "instances" /\ mnI > 0) =>
          /\ mnInstanceId = Padded3(mnI - 1)
          /\ Len(mnInstanceId) >= 3
    /\ (mnPc = "sleep") =>
          /\ mnCalls[Len(mnCalls)] = "client.publish"
          /\ mnTopic # << >> => mnPublished = mnResult.count

====
